---- MODULE Spec2Model ----
(***************************************************************************)
(* A model of the scheduling core of personal-scheduler: the date          *)
(* utilities, scheduleBook / scheduleVideo, the per-date task derivation   *)
(* (utils/scheduler) and the video text parser (utils/videoParser).        *)
(*                                                                         *)
(* Time.  A JavaScript Date is an instant in milliseconds.  The model      *)
(* counts instants in ticks, TicksPerDay of them to the 24 hours that the  *)
(* code writes as 1000 * 60 * 60 * 24 ms.  The runtime's timezone is a     *)
(* fixed offset tz (local time = UTC + tz ticks); daylight-saving changes  *)
(* are not modelled.                                                       *)
(***************************************************************************)
EXTENDS Integers, Sequences, FiniteSets, TLC

\* ------------------------------------------------------------------ bounds
TicksPerDay == 2
MaxDays == 2
MaxPage == 3
MaxSections == 4
MaxLines == 3
MaxPairs == 2
MaxMaterials == 2
MaxWrites == 3

StartPages == {1, 2}
TZOffsets == {-1, 0, 1}

\* Instants a material may start / end at, and instants a task is asked for.
StartInstants == 0 .. (TicksPerDay - 1)
EndInstants == 0 .. (MaxDays * TicksPerDay - 1)
QueryInstants == (0 - TicksPerDay) .. ((MaxDays + 1) * TicksPerDay - 1)

VARIABLES
  tz,          \* timezone offset of the runtime, in ticks
  material,    \* the material made by scheduleBook / scheduleVideo, or NoMaterial
  queryDate,   \* <<date>> of the last generate...TaskForDate call, or NoDate
  task,        \* what that call returned
  text,        \* parseVideoText: the text given
  lines,       \* parseVideoText: text.split('\n')
  lineNo,      \* parseVideoText: the loop index i (1-based here)
  currentTitle,\* parseVideoText: the pending title ('' is <<>>)
  order,       \* parseVideoText: the next order index
  sections,    \* parseVideoText: the sections emitted so far
  pc,          \* parseVideoText: "idle", "loop" or "done"
  result       \* parseVideoText: what it returned

VARIABLES
  gdbStart,    \* getDaysBetween: the argument start
  gdbEnd,      \* getDaysBetween: the argument end
  gdbDays      \* getDaysBetween: <<what it returned>>, <<>> before the call

schedVars == <<tz, material, queryDate, task>>
parseVars == <<text, lines, lineNo, currentTitle, order, sections, pc, result>>
VARIABLES
  planMaterials, \* generateWeeklyPlan: the argument materials
  planWeekStart, \* generateWeeklyPlan: <<weekStart>>, <<>> when it is omitted
  clock,         \* the instant new Date() returns
  weeklyPlan     \* what generateWeeklyPlan returned, NoPlan before the call

VARIABLES
  localItems,  \* localStorage: the parsed value under STORAGE_KEYS.MATERIALS
  remoteRows,  \* Supabase: the rows of table materials, in insertion order
  storeCall,   \* the last materialStorage write: operation, id, what threw
  storeResult, \* what that write returned on each backend
  localBefore, \* localItems as it was when that write was called
  faultSeen    \* whether a storage call has thrown so far

VARIABLES
  localCompleted,  \* localStorage: the keys under STORAGE_KEYS.COMPLETED_TASKS
  remoteCompleted, \* Supabase: the rows of table completed_tasks
  markCall,        \* the last completedTasksStorage call: operation, pair, failure
  lastMark         \* per pair, the last call that succeeded: "none" before any

VARIABLES
  appMaterials,   \* App: the state materials
  completedTasks, \* App: the state completedTasks, a set of keys
  appCall         \* App: the last handler that ran and its arguments

VARIABLES
  distribution    \* what distributeSectionsAcrossDays returned, NoMap before the call

dateVars == <<gdbStart, gdbEnd, gdbDays>>
weekVars == <<planMaterials, planWeekStart, clock, weeklyPlan>>
storeVars == <<localItems, remoteRows, storeCall, storeResult, localBefore, faultSeen>>
markVars == <<localCompleted, remoteCompleted, markCall, lastMark>>
appVars == <<appMaterials, completedTasks, appCall>>
distVars == <<distribution>>
extVars == <<dateVars, weekVars, storeVars, markVars, appVars, distVars>>
vars == <<tz, material, queryDate, task,
          text, lines, lineNo, currentTitle, order, sections, pc, result,
          extVars>>

NoMaterial == [type |-> "none"]
NoDate == <<>>
Null == [materialType |-> "null"]

\* ------------------------------------------------------------ Math helpers
Abs(x) == IF x < 0 THEN 0 - x ELSE x
Min(a, b) == IF a < b THEN a ELSE b
Max(a, b) == IF a > b THEN a ELSE b

\* Math.ceil(a / b) for integers a and b > 0 (\div rounds towards -infinity).
MathCeilDiv(a, b) == 0 - ((0 - a) \div b)
\* Math.floor(a / b)
MathFloorDiv(a, b) == a \div b

\* ---------------------------------------------------------------- Dates
\* Date.prototype.toISOString: the UTC calendar day and the time of day.
toISOString(d) == [date |-> d \div TicksPerDay, time |-> d % TicksPerDay]
\* new Date(isoString)
NewDate(iso) == iso.date * TicksPerDay + iso.time

\* Mutant: the day count rounded down.
getDaysBetween_RoundedDown(start, end) == MathFloorDiv(Abs(end - start), TicksPerDay)

\* dateUtils.getDaysBetween
getDaysBetween(start, end) == MathCeilDiv(Abs(end - start), TicksPerDay)

\* normalizeDate: setHours(0, 0, 0, 0) moves the instant to local midnight.
normalizeDate(d, off) == d - ((d + off) % TicksPerDay)

\* -------------------------------------------------------------- sections
Section(i) ==
  [id |-> i, title |-> i, duration |-> 20 + 25 * i, completed |-> FALSE, order |-> i - 1]
Sections(n) == [i \in 1 .. n |-> Section(i)]

RECURSIVE SumDuration(_)
SumDuration(s) ==
  IF s = <<>> THEN 0 ELSE Head(s).duration + SumDuration(Tail(s))

\* ------------------------------------------------------------ scheduling
\* Mutant: the rate rounded down instead of up.
scheduleBook_FloorRate(startPage, endPage, totalPages, startDate, endDate) ==
  LET days == getDaysBetween(startDate, endDate) + 1
  IN [type |-> "book",
      startPage |-> startPage,
      endPage |-> endPage,
      totalPages |-> totalPages,
      currentPage |-> startPage - 1,
      startDate |-> toISOString(startDate),
      endDate |-> toISOString(endDate),
      pagesPerDay |-> MathFloorDiv(totalPages, days)]

scheduleBook(startPage, endPage, totalPages, startDate, endDate) ==
  LET days == getDaysBetween(startDate, endDate) + 1
      pagesPerDay == MathCeilDiv(totalPages, days)
  IN [type |-> "book",
      startPage |-> startPage,
      endPage |-> endPage,
      totalPages |-> totalPages,
      currentPage |-> startPage - 1,
      startDate |-> toISOString(startDate),
      endDate |-> toISOString(endDate),
      pagesPerDay |-> pagesPerDay]

scheduleVideo(videoSections, totalDuration, startDate, endDate) ==
  LET days == getDaysBetween(startDate, endDate) + 1
  IN [type |-> "video",
      sections |-> videoSections,
      totalDuration |-> totalDuration,
      currentProgress |-> 0,
      startDate |-> toISOString(startDate),
      endDate |-> toISOString(endDate),
      sectionsPerDay |-> MathCeilDiv(Len(videoSections), days)]

\* Mutant: the range check on the instants as given, time of day not dropped.
OutOfRange_NotNormalized(m, date, off) ==
  date < NewDate(m.startDate) \/ date > NewDate(m.endDate)

\* The range check of both generators (scheduler.ts lines 150 and 199).
OutOfRange(m, date, off) ==
  LET targetDate == normalizeDate(date, off)
      mStart == normalizeDate(NewDate(m.startDate), off)
      mEnd == normalizeDate(NewDate(m.endDate), off)
  IN targetDate < mStart \/ targetDate > mEnd

\* Mutant: the day index counted from the instants as given.
BookDayIndex_NotNormalized(book, date, off) ==
  getDaysBetween(NewDate(book.startDate), date)

BookDayIndex(book, date, off) ==
  getDaysBetween(normalizeDate(NewDate(book.startDate), off), normalizeDate(date, off))

BookTaskStartPage(book, dayIndex) ==
  Max(book.startPage, book.startPage + dayIndex * book.pagesPerDay)

BookTaskEndPage(book, dayIndex) ==
  Min(book.startPage + (dayIndex + 1) * book.pagesPerDay - 1, book.endPage)

BookFinished(book) == book.currentPage >= book.endPage

\* Mutant: the completed flag compared with the first page of the day.
generateBookTaskForDate_CompletedFromStart(book, date, off) ==
  IF OutOfRange(book, date, off) THEN Null
  ELSE IF BookFinished(book) THEN Null
  ELSE
    LET dayIndex == BookDayIndex(book, date, off)
        startPage == BookTaskStartPage(book, dayIndex)
        endPage == BookTaskEndPage(book, dayIndex)
    IN IF startPage > book.endPage THEN Null
       ELSE [materialType |-> "book",
             description |-> <<startPage, endPage>>,
             completed |-> (book.currentPage >= startPage),
             startPage |-> startPage,
             endPage |-> endPage]

generateBookTaskForDate(book, date, off) ==
  IF OutOfRange(book, date, off) THEN Null
  ELSE IF BookFinished(book) THEN Null
  ELSE
    LET dayIndex == BookDayIndex(book, date, off)
        startPage == BookTaskStartPage(book, dayIndex)
        endPage == BookTaskEndPage(book, dayIndex)
    IN IF startPage > book.endPage THEN Null
       ELSE [materialType |-> "book",
             description |-> <<startPage, endPage>>,
             completed |-> (book.currentPage >= endPage),
             startPage |-> startPage,
             endPage |-> endPage]

VideoDayIndex(video, date, off) ==
  getDaysBetween(normalizeDate(NewDate(video.startDate), off), normalizeDate(date, off))

\* Mutant: the slice start taken from the fractional rate
\* sections.length / days instead of the stored sectionsPerDay.
VideoStartIndex_FractionalRate(video, dayIndex) ==
  MathFloorDiv(dayIndex * Len(video.sections),
               getDaysBetween(NewDate(video.startDate), NewDate(video.endDate)) + 1)

\* Math.floor(dayIndex * video.sectionsPerDay)
VideoStartIndex(video, dayIndex) == MathFloorDiv(dayIndex * video.sectionsPerDay, 1)

VideoEndIndex(video, dayIndex) ==
  Min(MathFloorDiv((dayIndex + 1) * video.sectionsPerDay, 1), Len(video.sections))

VideoFinished(video) == video.currentProgress >= Len(video.sections)

\* Array.prototype.slice(from, to) on 0-based indices, 0 <= from.
Slice(s, from, to) ==
  LET hi == Min(to, Len(s))
  IN IF from >= hi THEN <<>> ELSE [k \in 1 .. (hi - from) |-> s[from + k]]

\* Mutant: a day counts as completed only while the counter stands exactly
\* at the end of its slice.
generateVideoTaskForDate_CompletedAtEnd(video, date, off) ==
  IF OutOfRange(video, date, off) THEN Null
  ELSE IF VideoFinished(video) THEN Null
  ELSE
    LET dayIndex == VideoDayIndex(video, date, off)
        startIndex == VideoStartIndex(video, dayIndex)
        endIndex == VideoEndIndex(video, dayIndex)
        daySections == Slice(video.sections, startIndex, endIndex)
        totalMinutes == SumDuration(daySections)
    IN IF startIndex >= Len(video.sections) THEN Null
       ELSE IF Len(daySections) = 0 THEN Null
       ELSE [materialType |-> "video",
             description |-> [count |-> Len(daySections),
                              hours |-> totalMinutes \div 60,
                              minutes |-> totalMinutes % 60],
             completed |-> (video.currentProgress = endIndex),
             sections |-> [k \in 1 .. Len(daySections) |-> daySections[k].title]]

generateVideoTaskForDate(video, date, off) ==
  IF OutOfRange(video, date, off) THEN Null
  ELSE IF VideoFinished(video) THEN Null
  ELSE
    LET dayIndex == VideoDayIndex(video, date, off)
        startIndex == VideoStartIndex(video, dayIndex)
        endIndex == VideoEndIndex(video, dayIndex)
        daySections == Slice(video.sections, startIndex, endIndex)
        totalMinutes == SumDuration(daySections)
    IN IF startIndex >= Len(video.sections) THEN Null
       ELSE IF Len(daySections) = 0 THEN Null
       ELSE [materialType |-> "video",
             description |-> [count |-> Len(daySections),
                              hours |-> totalMinutes \div 60,
                              minutes |-> totalMinutes % 60],
             completed |-> (video.currentProgress >= endIndex),
             sections |-> [k \in 1 .. Len(daySections) |-> daySections[k].title]]

updateBookProgress(book, completedPage) ==
  [book EXCEPT !.currentPage = Min(completedPage, book.totalPages)]

isLearningCompleted(m) ==
  IF m.type = "book" THEN m.currentPage >= m.totalPages
  ELSE IF m.type = "video" THEN m.currentProgress >= Len(m.sections)
  ELSE FALSE

\* A JavaScript number that a division can produce: a finite integer, NaN
\* (0 / 0) or Infinity (x / 0 for x > 0).
Finite(n) == [kind |-> "finite", value |-> n]
NaN == [kind |-> "NaN"]
Infinity == [kind |-> "Infinity"]

\* Math.round((a / b) * 100) for integers a >= 0 and b >= 0; Math.round
\* rounds a half up.
MathRoundPercent(a, b) ==
  IF b = 0 THEN (IF a = 0 THEN NaN ELSE Infinity)
  ELSE Finite((2 * a * 100 + b) \div (2 * b))

\* Math.min(x, n) for a finite n: NaN wins, Infinity loses.
MathMin(x, n) ==
  IF x.kind = "NaN" THEN NaN
  ELSE IF x.kind = "Infinity" THEN Finite(n)
  ELSE Finite(Min(x.value, n))

calculateProgress(m) ==
  IF m.type = "book"
    THEN MathMin(MathRoundPercent(m.currentPage, m.totalPages), 100)
  ELSE IF m.type = "video"
    THEN LET totalSections == Len(m.sections)
         IN IF totalSections = 0 THEN Finite(0)
            ELSE MathRoundPercent(m.currentProgress, totalSections)
  ELSE Finite(0)

\* ------------------------------------------------------------ video parser
\* A string is a sequence of characters; a Hangul syllable is one character,
\* written here by its romanisation ("mu" "ryo" is the two-character word
\* for "free").
Digits == {"0", "1", "2", "3", "4", "5", "6", "7", "8", "9"}
DigitValue(c) ==
  CASE c = "0" -> 0 [] c = "1" -> 1 [] c = "2" -> 2 [] c = "3" -> 3 [] c = "4" -> 4
    [] c = "5" -> 5 [] c = "6" -> 6 [] c = "7" -> 7 [] c = "8" -> 8 [] c = "9" -> 9
WhiteSpace == {" ", "\t", "\r"}
NewLine == "\n"

\* String.prototype.split(sep) for a one-character separator.
RECURSIVE SplitAt(_, _, _)
SplitAt(str, sep, acc) ==
  IF str = <<>> THEN <<acc>>
  ELSE IF Head(str) = sep THEN <<acc>> \o SplitAt(Tail(str), sep, <<>>)
  ELSE SplitAt(Tail(str), sep, Append(acc, Head(str)))
split(str, sep) == SplitAt(str, sep, <<>>)

\* String.prototype.trim
RECURSIVE TrimStart(_)
TrimStart(str) ==
  IF str # <<>> /\ Head(str) \in WhiteSpace THEN TrimStart(Tail(str)) ELSE str
RECURSIVE TrimEnd(_)
TrimEnd(str) ==
  IF str # <<>> /\ str[Len(str)] \in WhiteSpace
  THEN TrimEnd(SubSeq(str, 1, Len(str) - 1)) ELSE str
trim(str) == TrimEnd(TrimStart(str))

\* String.prototype.includes
includes(str, sub) ==
  \E k \in 1 .. (Len(str) - Len(sub) + 1) : SubSeq(str, k, k + Len(sub) - 1) = sub

\* /^\d+$/.test(line)
IsAllDigits(line) == line # <<>> /\ \A k \in 1 .. Len(line) : line[k] \in Digits
\* /^\d{2}$/.test(line)
IsTwoDigits(line) == Len(line) = 2 /\ IsAllDigits(line)

NoiseFree == <<"mu", "ryo">>
NoiseDownload == <<"da", "un", "ro", "deu">>
NoiseLectureMaterial == <<"gang", "ui", " ", "ja", "ryo">>
NoiseClassMaterial == <<"su", "eop", " ", "ja", "ryo">>
\* Mutant: no line is taken for noise.
IsNoise_Never(line) == FALSE

IsNoise(line) ==
  \/ line = NoiseFree
  \/ includes(line, NoiseDownload)
  \/ includes(line, NoiseLectureMaterial)
  \/ includes(line, NoiseClassMaterial)

DigitAt(line, k) == k >= 1 /\ k <= Len(line) /\ line[k] \in Digits
ColonAt(line, k) == k >= 1 /\ k <= Len(line) /\ line[k] = ":"

\* \d{1,2}:\d{2} matches starting at position k; the greedy \d{1,2} takes two
\* digits when it can.  The value is the number of digits it takes, 0 for no
\* match.
TimeMatchAt(line, k) ==
  IF DigitAt(line, k) /\ DigitAt(line, k + 1) /\ ColonAt(line, k + 2)
       /\ DigitAt(line, k + 3) /\ DigitAt(line, k + 4) THEN 2
  ELSE IF DigitAt(line, k) /\ ColonAt(line, k + 1)
       /\ DigitAt(line, k + 2) /\ DigitAt(line, k + 3) THEN 1
  ELSE 0

\* containsTimeFormat: /\d{1,2}:\d{2}/.test(line)
containsTimeFormat(line) == \E k \in 1 .. Len(line) : TimeMatchAt(line, k) > 0

\* line.match(/(\d{1,2}:\d{2}(?::\d{2})?)/)[1]: the leftmost match, with the
\* optional :\d{2} group taken when it is there.
timeMatch(line) ==
  LET k == CHOOSE p \in 1 .. Len(line) :
             /\ TimeMatchAt(line, p) > 0
             /\ \A q \in 1 .. (p - 1) : TimeMatchAt(line, q) = 0
      last == k + TimeMatchAt(line, k) + 2
      more == ColonAt(line, last + 1) /\ DigitAt(line, last + 2) /\ DigitAt(line, last + 3)
  IN SubSeq(line, k, IF more THEN last + 3 ELSE last)

\* parseInt(str) || 0: the value of the leading digits, 0 when there are none.
RECURSIVE ParseDigits(_, _)
ParseDigits(str, acc) ==
  IF str = <<>> \/ Head(str) \notin Digits THEN acc
  ELSE ParseDigits(Tail(str), acc * 10 + DigitValue(Head(str)))
parseInt(str) == ParseDigits(TrimStart(str), 0)

OverheadMinutes == 20

\* Mutant: the seconds rounded down instead of up.
parseTimeToMinutes_FloorSeconds(timeStr) ==
  LET parts == split(trim(timeStr), ":")
  IN IF Len(parts) = 2
     THEN parseInt(parts[1]) + MathFloorDiv(parseInt(parts[2]), 60) + OverheadMinutes
     ELSE IF Len(parts) = 3
     THEN parseInt(parts[1]) * 60 + parseInt(parts[2])
            + MathFloorDiv(parseInt(parts[3]), 60) + OverheadMinutes
     ELSE OverheadMinutes

parseTimeToMinutes(timeStr) ==
  LET parts == split(trim(timeStr), ":")
  IN IF Len(parts) = 2
     THEN parseInt(parts[1]) + MathCeilDiv(parseInt(parts[2]), 60) + OverheadMinutes
     ELSE IF Len(parts) = 3
     THEN parseInt(parts[1]) * 60 + parseInt(parts[2])
            + MathCeilDiv(parseInt(parts[3]), 60) + OverheadMinutes
     ELSE OverheadMinutes

\* The loop variables parseVideoText keeps from one line to the next.
ParseState(title, ord, secs) == [currentTitle |-> title, order |-> ord, sections |-> secs]

\* Mutant: the pending title is not cleared after a section is emitted.
ParseLineStep_TitleKept(st, rawLine) ==
  LET line == trim(rawLine)
  IN IF line = <<>> THEN st
     ELSE IF IsAllDigits(line) THEN st
     ELSE IF IsTwoDigits(line) THEN st
     ELSE IF IsNoise(line) THEN st
     ELSE IF containsTimeFormat(line)
     THEN IF st.currentTitle # <<>>
          THEN ParseState(st.currentTitle, st.order + 1,
                 Append(st.sections,
                        [id |-> <<"video-", st.order>>,
                         title |-> st.currentTitle,
                         duration |-> parseTimeToMinutes(timeMatch(line)),
                         completed |-> FALSE,
                         order |-> st.order]))
          ELSE st
     ELSE ParseState(line, st.order, st.sections)

\* One iteration of the for loop of parseVideoText.
ParseLineStep(st, rawLine) ==
  LET line == trim(rawLine)
  IN IF line = <<>> THEN st
     ELSE IF IsAllDigits(line) THEN st
     ELSE IF IsTwoDigits(line) THEN st
     ELSE IF IsNoise(line) THEN st
     ELSE IF containsTimeFormat(line)
     THEN IF st.currentTitle # <<>>
          THEN ParseState(<<>>, st.order + 1,
                 Append(st.sections,
                        [id |-> <<"video-", st.order>>,
                         title |-> st.currentTitle,
                         duration |-> parseTimeToMinutes(timeMatch(line)),
                         completed |-> FALSE,
                         order |-> st.order]))
          ELSE st
     ELSE ParseState(line, st.order, st.sections)

\* The lines the bounded inputs are made of.
TitleLines == { <<"I", "n">>, <<" ", "B", "a">> }
TimeLines ==
  { [line |-> <<"0", "5", ":", "3", "9">>, hours |-> 0, minutes |-> 5, seconds |-> 39],
    [line |-> <<"1", "2", ":", "0", "0">>, hours |-> 0, minutes |-> 12, seconds |-> 0],
    [line |-> <<"1", ":", "0", "2", ":", "0", "3">>, hours |-> 1, minutes |-> 2, seconds |-> 3] }
OtherLines ==
  { <<" ">>,
    <<"0", "1">>,
    NoiseFree,
    NoiseDownload \o <<" ", "1", ":", "3", "0">>,
    <<"x", " ", "3", ":", "0", "7">> }
LinePool == TitleLines \cup {t.line : t \in TimeLines} \cup OtherLines

\* Array.prototype.join('\n')
RECURSIVE JoinLines(_)
JoinLines(ls) ==
  IF Len(ls) = 0 THEN <<>>
  ELSE IF Len(ls) = 1 THEN ls[1]
  ELSE ls[1] \o <<NewLine>> \o JoinLines(Tail(ls))

\* A transcript that emits title \n MM:SS \n for each pair.
RECURSIVE TranscriptOf(_)
TranscriptOf(pairs) ==
  IF pairs = <<>> THEN <<>>
  ELSE Head(pairs)[1] \o <<NewLine>> \o Head(pairs)[2].line \o <<NewLine>>
         \o TranscriptOf(Tail(pairs))

PairSeqs == UNION {[1 .. n -> TitleLines \X TimeLines] : n \in 0 .. MaxPairs}

\* "Intro\n05:39\n\nBasics\n12:45\n"
ExampleText ==
  <<"I", "n", "t", "r", "o", NewLine, "0", "5", ":", "3", "9", NewLine, NewLine,
    "B", "a", "s", "i", "c", "s", NewLine, "1", "2", ":", "4", "5", NewLine>>

\* Lines of each kind of noise, with and without a time in them.
NoiseLines ==
  { <<" ">> \o NoiseFree \o <<" ">>,
    NoiseDownload,
    <<"1", "2", ":", "3", "4", " ">> \o NoiseLectureMaterial,
    <<"P", "D", "F", " ">> \o NoiseClassMaterial \o <<" ", "1", ":", "3", "0">> }

\* A title and its duration line with a line of noise between them.
SeparatedTexts ==
  {JoinLines(<<t, n, d.line>>) : t \in TitleLines, n \in NoiseLines, d \in TimeLines}

Texts ==
  {JoinLines(ls) : ls \in UNION {[1 .. n -> LinePool] : n \in 1 .. MaxLines}}
    \cup {TranscriptOf(ps) : ps \in PairSeqs}
    \cup SeparatedTexts
    \cup {ExampleText}

ParseIdle ==
  /\ lines = <<>>
  /\ lineNo = 0
  /\ currentTitle = <<>>
  /\ order = 0
  /\ sections = <<>>
  /\ pc = "idle"
  /\ result = [sections |-> <<>>, totalDuration |-> 0, totalCount |-> 0]

DateIdle ==
  /\ gdbStart = 0
  /\ gdbEnd = 0
  /\ gdbDays = <<>>

NoPlan == [days |-> <<>>]

WeekIdle ==
  /\ planMaterials = <<>>
  /\ planWeekStart = <<>>
  /\ clock = 0
  /\ weeklyPlan = NoPlan

NoCall == [op |-> "none"]
NoResult == [success |-> TRUE]

StoreIdle ==
  /\ localItems = <<>>
  /\ remoteRows = <<>>
  /\ storeCall = NoCall
  /\ storeResult = [local |-> NoResult, remote |-> NoResult]
  /\ localBefore = <<>>
  /\ faultSeen = FALSE

\* The ids of materials and the date keys completion is recorded for.
MaterialIds == 1 .. MaxMaterials
DateKeys == {0, 1}
Pairs == MaterialIds \X DateKeys

MarkIdle ==
  /\ localCompleted = {}
  /\ remoteCompleted = {}
  /\ markCall = NoCall
  /\ lastMark = [pair \in Pairs |-> "none"]

AppIdle ==
  /\ appMaterials = <<>>
  /\ completedTasks = {}
  /\ appCall = NoCall

NoMap == [made |-> FALSE]

DistIdle == distribution = NoMap

ExtIdle == DateIdle /\ WeekIdle /\ StoreIdle /\ MarkIdle /\ AppIdle /\ DistIdle

SchedIdle ==
  /\ tz = 0
  /\ material = NoMaterial
  /\ queryDate = NoDate
  /\ task = Null

ParserInit ==
  /\ SchedIdle
  /\ ExtIdle
  /\ text \in Texts
  /\ ParseIdle

\* parseVideoText, up to the loop.
ParseBegin ==
  /\ pc = "idle"
  /\ lines' = split(text, NewLine)
  /\ sections' = <<>>
  /\ currentTitle' = <<>>
  /\ order' = 0
  /\ lineNo' = 1
  /\ pc' = "loop"
  /\ UNCHANGED <<text, result>>
  /\ UNCHANGED <<schedVars, extVars>>

\* One iteration of the loop.
ParseLine ==
  /\ pc = "loop"
  /\ lineNo <= Len(lines)
  /\ LET st == ParseLineStep(ParseState(currentTitle, order, sections), lines[lineNo])
     IN /\ currentTitle' = st.currentTitle
        /\ order' = st.order
        /\ sections' = st.sections
  /\ lineNo' = lineNo + 1
  /\ UNCHANGED <<text, lines, pc, result>>
  /\ UNCHANGED <<schedVars, extVars>>

\* Mutant: totalCount counts the lines read instead of the sections.
ParseFinish_CountsLines ==
  /\ pc = "loop"
  /\ lineNo > Len(lines)
  /\ result' = [sections |-> sections,
                totalDuration |-> SumDuration(sections),
                totalCount |-> Len(lines)]
  /\ pc' = "done"
  /\ UNCHANGED <<text, lines, lineNo, currentTitle, order, sections>>
  /\ UNCHANGED <<schedVars, extVars>>

\* parseVideoText, after the loop: the totals and the return.
ParseFinish ==
  /\ pc = "loop"
  /\ lineNo > Len(lines)
  /\ result' = [sections |-> sections,
                totalDuration |-> SumDuration(sections),
                totalCount |-> Len(sections)]
  /\ pc' = "done"
  /\ UNCHANGED <<text, lines, lineNo, currentTitle, order, sections>>
  /\ UNCHANGED <<schedVars, extVars>>

ParserNext ==
  \/ ParseBegin
  \/ ParseLine
  \/ ParseFinish

ParserSpec == ParserInit /\ [][ParserNext]_vars

\* ------------------------------------------------------------------ actions
Init ==
  /\ tz \in TZOffsets
  /\ ExtIdle
  /\ material = NoMaterial
  /\ queryDate = NoDate
  /\ task = Null
  /\ text = <<>>
  /\ ParseIdle

ScheduleBook ==
  /\ material = NoMaterial
  /\ \E startPage \in StartPages, endPage \in 0 .. MaxPage, totalPages \in 0 .. MaxPage,
        startDate \in StartInstants, endDate \in EndInstants :
       material' = scheduleBook(startPage, endPage, totalPages, startDate, endDate)
  /\ UNCHANGED <<tz, queryDate, task>>
  /\ UNCHANGED <<parseVars, extVars>>

ScheduleVideo ==
  /\ material = NoMaterial
  /\ \E n \in 0 .. MaxSections, startDate \in StartInstants, endDate \in EndInstants :
       material' = scheduleVideo(Sections(n), SumDuration(Sections(n)), startDate, endDate)
  /\ UNCHANGED <<tz, queryDate, task>>
  /\ UNCHANGED <<parseVars, extVars>>

UpdateBookProgress ==
  /\ material.type = "book"
  /\ \E completedPage \in 0 .. MaxPage :
       material' = updateBookProgress(material, completedPage)
  /\ UNCHANGED <<tz, queryDate, task>>
  /\ UNCHANGED <<parseVars, extVars>>

\* materialStorage.update(id, {currentProgress}): the collaborator's way of
\* advancing a video.
UpdateVideoProgress ==
  /\ material.type = "video"
  /\ \E p \in 0 .. Len(material.sections) :
       material' = [material EXCEPT !.currentProgress = p]
  /\ UNCHANGED <<tz, queryDate, task>>
  /\ UNCHANGED <<parseVars, extVars>>

GenerateBookTask ==
  /\ material.type = "book"
  /\ \E date \in QueryInstants :
       /\ queryDate' = <<date>>
       /\ task' = generateBookTaskForDate(material, date, tz)
  /\ UNCHANGED <<tz, material>>
  /\ UNCHANGED <<parseVars, extVars>>

GenerateVideoTask ==
  /\ material.type = "video"
  /\ \E date \in QueryInstants :
       /\ queryDate' = <<date>>
       /\ task' = generateVideoTaskForDate(material, date, tz)
  /\ UNCHANGED <<tz, material>>
  /\ UNCHANGED <<parseVars, extVars>>

Next ==
  \/ ScheduleBook
  \/ ScheduleVideo
  \/ UpdateBookProgress
  \/ UpdateVideoProgress
  \/ GenerateBookTask
  \/ GenerateVideoTask

Spec == Init /\ [][Next]_vars

\* -------------------------------------------- the day count on its own
\* The instants getDaysBetween is called with: any two Dates.
DayCountInstants == (0 - TicksPerDay) .. ((MaxDays + 1) * TicksPerDay - 1)

DateInit ==
  /\ SchedIdle
  /\ text = <<>>
  /\ ParseIdle
  /\ gdbStart \in DayCountInstants
  /\ gdbEnd \in DayCountInstants
  /\ gdbDays = <<>>
  /\ WeekIdle
  /\ StoreIdle
  /\ MarkIdle
  /\ AppIdle
  /\ DistIdle

GetDaysBetween ==
  /\ gdbDays = <<>>
  /\ gdbDays' = <<getDaysBetween(gdbStart, gdbEnd)>>
  /\ UNCHANGED <<gdbStart, gdbEnd>>
  /\ UNCHANGED <<schedVars, parseVars, weekVars, storeVars, markVars, appVars, distVars>>

DateNext == GetDaysBetween

DateSpec == DateInit /\ [][DateNext]_vars

\* ---------------------------------------------------- the weekly plan
DaysPerWeek == 7

\* The labels of getDayOfWeek, Sunday first (il-yoil ... to-yoil).
DayNames ==
  <<"il-yoil", "wol-yoil", "hwa-yoil", "su-yoil", "mok-yoil", "geum-yoil", "to-yoil">>

\* dateUtils.formatDate: the date part of toISOString, the UTC calendar day.
formatDate(date) == toISOString(date).date

\* Date.prototype.getDay: the local day of the week, 0 for Sunday.  Day 0 of
\* the epoch (1970-01-01) is a Thursday.
getDay(date, off) == (((date + off) \div TicksPerDay) + 4) % DaysPerWeek

\* dateUtils.getDayOfWeek
getDayOfWeek(date, off) == DayNames[getDay(date, off) + 1]

\* Mutant: the week taken to start on Monday.
getWeekStart_MondayFirst(date, off) ==
  date - ((getDay(date, off) + 6) % DaysPerWeek) * TicksPerDay

\* dateUtils.getWeekStart: setDate(getDate() - getDay()) keeps the local
\* time of day.
getWeekStart(date, off) == date - getDay(date, off) * TicksPerDay

\* dateUtils.getWeekEnd
getWeekEnd(date, off) == getWeekStart(date, off) + 6 * TicksPerDay

\* The Date objects of a getWeekStart call when it returns: the argument,
\* which the call copies (const d = new Date(date)) before setDate moves the
\* copy, and the Date returned.
getWeekStartCall(date, off) ==
  [date |-> date, returned |-> getWeekStart(date, off)]

\* The same for getWeekEnd: the argument goes to getWeekStart, and setDate
\* moves a copy of what that returned.
getWeekEndCall(date, off) ==
  [date |-> getWeekStartCall(date, off).date, returned |-> getWeekEnd(date, off)]

\* The loop of getDateRange: while (current <= end) push and add a day.
RECURSIVE DateRangeLoop(_, _, _)
DateRangeLoop(current, end, dates) ==
  IF current <= end
    THEN DateRangeLoop(current + TicksPerDay, end, Append(dates, current))
    ELSE dates

\* dateUtils.getDateRange
getDateRange(start, end) == DateRangeLoop(start, end, <<>>)

\* A material of the custom variant.
CustomMaterial == [type |-> "custom"]

\* Mutant: only books are given a task.
materialTask_BooksOnly(m, date, off) ==
  IF m.type = "book"
    THEN LET t == generateBookTaskForDate(m, date, off)
         IN IF t = Null THEN Null ELSE t @@ [materialId |-> m.id]
  ELSE Null

\* The task generateWeeklyPlan gets for one material on one date; the
\* generators put the material's id on it.
materialTask(m, date, off) ==
  IF m.type = "book"
    THEN LET t == generateBookTaskForDate(m, date, off)
         IN IF t = Null THEN Null ELSE t @@ [materialId |-> m.id]
  ELSE IF m.type = "video"
    THEN LET t == generateVideoTaskForDate(m, date, off)
         IN IF t = Null THEN Null ELSE t @@ [materialId |-> m.id]
  ELSE Null

\* materials.forEach(...) of generateWeeklyPlan: the tasks pushed after the
\* first n materials.
RECURSIVE TasksPushed(_, _, _, _)
TasksPushed(materials, n, date, off) ==
  IF n = 0 THEN <<>>
  ELSE LET tasks == TasksPushed(materials, n - 1, date, off)
           t == materialTask(materials[n], date, off)
       IN IF t # Null THEN Append(tasks, t) ELSE tasks

generateWeeklyPlan(materials, weekStart, now, off) ==
  LET start == IF weekStart # <<>> THEN weekStart[1] ELSE getWeekStart(now, off)
      end == getWeekEnd(start, off)
      dateRange == getDateRange(start, end)
  IN [weekStart |-> start,
      weekEnd |-> end,
      days |-> [k \in 1 .. Len(dateRange) |->
                  [date |-> formatDate(dateRange[k]),
                   dayOfWeek |-> getDayOfWeek(dateRange[k], off),
                   tasks |-> TasksPushed(materials, Len(materials), dateRange[k], off)]]]

\* The instants of the Sunday-to-Saturday week that holds day 0 of the
\* epoch: weekStart arguments and readings of the clock.
WeekInstants == (0 - 4 * TicksPerDay) .. (3 * TicksPerDay - 1)

WeekStartArguments == {<<>>} \cup {<<w>> : w \in WeekInstants}

\* Materials a plan is asked for: a book over MaxDays dates as scheduleBook
\* returns it, advanced by updateBookProgress, or finished; a video as
\* scheduleVideo returns it; a custom material.
PlanBook == scheduleBook(1, MaxPage, MaxPage, 0, (MaxDays - 1) * TicksPerDay)
PlanVideo ==
  scheduleVideo(Sections(MaxSections), SumDuration(Sections(MaxSections)),
                0, (MaxDays - 1) * TicksPerDay)
PlanPool ==
  {PlanBook, updateBookProgress(PlanBook, 1), updateBookProgress(PlanBook, MaxPage),
   PlanVideo, CustomMaterial}

\* The material with its id; ids are distinct.
WithId(m, id) == m @@ [id |-> id]

PlanMaterialLists ==
  UNION {{[k \in 1 .. n |-> WithId(f[k], k)] : f \in [1 .. n -> PlanPool]}
         : n \in 0 .. MaxMaterials}

WeekInit ==
  /\ tz \in TZOffsets
  /\ material = NoMaterial
  /\ queryDate = NoDate
  /\ task = Null
  /\ text = <<>>
  /\ ParseIdle
  /\ DateIdle
  /\ StoreIdle
  /\ MarkIdle
  /\ AppIdle
  /\ DistIdle
  /\ planMaterials \in PlanMaterialLists
  /\ planWeekStart = <<>>
  /\ clock \in WeekInstants
  /\ weeklyPlan = NoPlan

GenerateWeeklyPlan ==
  /\ weeklyPlan = NoPlan
  /\ \E weekStart \in WeekStartArguments :
       /\ planWeekStart' = weekStart
       /\ weeklyPlan' = generateWeeklyPlan(planMaterials, weekStart, clock, tz)
  /\ UNCHANGED <<planMaterials, clock>>
  /\ UNCHANGED <<schedVars, parseVars, dateVars, storeVars, markVars, appVars, distVars>>

WeekNext == GenerateWeeklyPlan

WeekSpec == WeekInit /\ [][WeekNext]_vars

\* ---------------------------------------------------- material storage
\* JavaScript values of an optional string property.
Str(x) == <<"string", x>>
Undefined == <<"undefined">>
JsNull == <<"null">>

\* What scheduleBook / scheduleVideo put on a material besides its schedule:
\* id (crypto.randomUUID()), description, createdAt and updatedAt.
Registered(m, id, description, now) ==
  m @@ [id |-> id, description |-> description,
        createdAt |-> toISOString(now), updatedAt |-> toISOString(now)]

\* material.description, undefined when the property is missing.
descriptionOf(m) == IF "description" \in DOMAIN m THEN m.description ELSE Undefined

\* JSON.parse(JSON.stringify(m)): a property whose value is undefined is
\* left out; strings and numbers come back as they were.
JSONRoundTrip(m) ==
  IF descriptionOf(m) = Undefined
    THEN [f \in (DOMAIN m) \ {"description"} |-> m[f]]
    ELSE m

\* { ...a, ...b }
Spread(a, b) ==
  [f \in (DOMAIN a) \cup (DOMAIN b) |-> IF f \in DOMAIN b THEN b[f] ELSE a[f]]

\* The ErrorState of handleStorageError and the one update builds for an id
\* that is not stored; the messages are the Korean texts of the source.
handleStorageError ==
  [hasError |-> TRUE, message |-> "deiteo-reul jeojanghaneun jung oryu", type |-> "storage"]
NotFoundError ==
  [hasError |-> TRUE, message |-> "hakseup jaryo-reul chajeul su eopseumnida", type |-> "storage"]
Success == [success |-> TRUE]
Failure(error) == [success |-> FALSE, error |-> error]

\* Array.prototype.findIndex by id, 1-based; 0 stands for -1.
FindIndex(items, id) ==
  IF \E n \in 1 .. Len(items) : items[n].id = id
    THEN CHOOSE n \in 1 .. Len(items) :
           /\ items[n].id = id
           /\ \A k \in 1 .. (n - 1) : items[k].id # id
    ELSE 0

\* ---- the localStorage backend.  throws: localStorage.setItem / removeItem
\* throws (quota exceeded, storage disabled).
localGetAll(items) == items

localGetById(items, id) ==
  IF FindIndex(items, id) = 0 THEN NoMaterial ELSE items[FindIndex(items, id)]

localAdd(items, m, throws) ==
  IF throws THEN [items |-> items, result |-> Failure(handleStorageError)]
  ELSE [items |-> Append(items, JSONRoundTrip(m)), result |-> Success]

\* Mutant: update of an id that is not stored adds the fields as a new item.
localUpdate_Upsert(items, id, updates, now, throws) ==
  LET index == FindIndex(items, id)
  IN IF index = 0
       THEN [items |-> Append(items, Spread(updates, [id |-> id])), result |-> Success]
     ELSE IF throws THEN [items |-> items, result |-> Failure(handleStorageError)]
     ELSE [items |-> [items EXCEPT ![index] =
                        JSONRoundTrip(Spread(Spread(items[index], updates),
                                             [updatedAt |-> toISOString(now)]))],
           result |-> Success]

localUpdate(items, id, updates, now, throws) ==
  LET index == FindIndex(items, id)
  IN IF index = 0 THEN [items |-> items, result |-> Failure(NotFoundError)]
     ELSE IF throws THEN [items |-> items, result |-> Failure(handleStorageError)]
     ELSE [items |-> [items EXCEPT ![index] =
                        JSONRoundTrip(Spread(Spread(items[index], updates),
                                             [updatedAt |-> toISOString(now)]))],
           result |-> Success]

localDelete(items, id, throws) ==
  IF throws THEN [items |-> items, result |-> Failure(handleStorageError)]
  ELSE [items |-> SelectSeq(items, LAMBDA m : m.id # id), result |-> Success]

localClear(items, throws) ==
  IF throws THEN [items |-> items, result |-> Failure(handleStorageError)]
  ELSE [items |-> <<>>, result |-> Success]

\* ---- the Supabase backend.  A row holds the columns the code writes;
\* columns it sets to null for the material's type are left out of the row.
\* isoString.split('T')[0]: the YYYY-MM-DD part alone.
formatDateForDb(isoString) == [date |-> isoString.date]

materialToDb(m) ==
  LET base == [type |-> m.type,
               description |-> IF descriptionOf(m) \in {Undefined, Str("")}
                                 THEN JsNull ELSE m.description]
  IN IF m.type = "book"
       THEN base @@ [total_pages |-> m.totalPages,
                     current_page |-> m.currentPage,
                     pages_per_day |-> m.pagesPerDay,
                     start_date |-> formatDateForDb(m.startDate),
                     end_date |-> formatDateForDb(m.endDate)]
     ELSE IF m.type = "video"
       THEN base @@ [sections |-> m.sections,
                     total_duration |-> m.totalDuration,
                     current_progress |-> m.currentProgress,
                     sections_per_day |-> m.sectionsPerDay,
                     start_date |-> formatDateForDb(m.startDate),
                     end_date |-> formatDateForDb(m.endDate)]
     ELSE base @@ [tasks |-> m.tasks,
                   start_date |-> formatDateForDb(m.startDate),
                   end_date |-> formatDateForDb(m.endDate)]

dbToMaterial(row) ==
  LET base == [id |-> row.id,
               description |-> IF row.description = JsNull THEN Str("")
                               ELSE row.description,
               createdAt |-> row.created_at,
               updatedAt |-> row.updated_at]
  IN IF row.type = "book"
       THEN base @@ [type |-> "book",
                     totalPages |-> row.total_pages,
                     currentPage |-> row.current_page,
                     startDate |-> row.start_date,
                     endDate |-> row.end_date,
                     pagesPerDay |-> row.pages_per_day]
     ELSE IF row.type = "video"
       THEN base @@ [type |-> "video",
                     sections |-> row.sections,
                     totalDuration |-> row.total_duration,
                     currentProgress |-> row.current_progress,
                     startDate |-> row.start_date,
                     endDate |-> row.end_date,
                     sectionsPerDay |-> row.sections_per_day]
     ELSE base @@ [type |-> "custom",
                   tasks |-> row.tasks,
                   startDate |-> row.start_date,
                   endDate |-> row.end_date]

\* .order('created_at', { ascending: false }): the latest row first.
RECURSIVE OrderByCreatedAtDesc(_)
OrderByCreatedAtDesc(rows) ==
  IF rows = <<>> THEN <<>>
  ELSE LET latest == CHOOSE n \in 1 .. Len(rows) :
                       \A k \in 1 .. Len(rows) :
                         \/ NewDate(rows[k].created_at) < NewDate(rows[n].created_at)
                         \/ (NewDate(rows[k].created_at) = NewDate(rows[n].created_at)
                             /\ n <= k)
           others == [k \in 1 .. (Len(rows) - 1) |->
                        IF k < latest THEN rows[k] ELSE rows[k + 1]]
       IN <<rows[latest]>> \o OrderByCreatedAtDesc(others)

supabaseGetAll(rows) ==
  LET ordered == OrderByCreatedAtDesc(rows)
  IN [k \in 1 .. Len(ordered) |-> dbToMaterial(ordered[k])]

\* .eq('id', id).single(): the row when there is exactly one, else an error,
\* which getById turns into null.
supabaseGetById(rows, id) ==
  IF Cardinality({n \in 1 .. Len(rows) : rows[n].id = id}) = 1
    THEN dbToMaterial(rows[CHOOSE n \in 1 .. Len(rows) : rows[n].id = id])
    ELSE NoMaterial

\* fails: the request returns an error.
supabaseAdd(rows, m, fails) ==
  IF fails THEN [rows |-> rows, result |-> Failure(handleStorageError)]
  ELSE [rows |-> Append(rows, ([id |-> m.id] @@ materialToDb(m))
                                @@ [created_at |-> m.createdAt,
                                    updated_at |-> m.updatedAt]),
        result |-> Success]

\* The update sends materialToDb(updated) and no updated_at; refreshed says
\* whether the table itself (a trigger outside this repository) sets
\* updated_at to the time of the update.
supabaseUpdate(rows, id, updates, now, refreshed, fails) ==
  LET existing == IF fails THEN NoMaterial ELSE supabaseGetById(rows, id)
  IN IF existing = NoMaterial
       THEN [rows |-> rows, result |-> Failure(NotFoundError)]
     ELSE LET dbData == materialToDb(Spread(existing, updates))
              stamp == IF refreshed THEN [updated_at |-> toISOString(now)]
                       ELSE [updated_at |-> existing.updatedAt]
          IN [rows |-> [n \in 1 .. Len(rows) |->
                          IF rows[n].id = id
                            THEN Spread(Spread(rows[n], dbData), stamp)
                            ELSE rows[n]],
              result |-> Success]

supabaseDelete(rows, id, fails) ==
  IF fails THEN [rows |-> rows, result |-> Failure(handleStorageError)]
  ELSE [rows |-> SelectSeq(rows, LAMBDA row : row.id # id), result |-> Success]

supabaseClear(rows, fails) ==
  IF fails THEN [rows |-> rows, result |-> Failure(handleStorageError)]
  ELSE [rows |-> <<>>, result |-> Success]

\* ---- both backends driven by the same calls; the clock moves on by one
\* tick with every call, and MaxWrites calls are made at most.
Descriptions == {Undefined, Str("memo")}
Faults == {"none", "local", "remote"}

\* The materials that are added: a book of pages 2 .. MaxPage and a video,
\* both starting and ending away from midnight.
StoreBook == scheduleBook(2, MaxPage, MaxPage - 1, 1, TicksPerDay + 1)
StoreVideo == scheduleVideo(Sections(1), SumDuration(Sections(1)), 1, TicksPerDay + 1)

\* The progress update sent for a stored material of this type.
ProgressUpdate(m) ==
  IF m.type = "video" THEN [currentProgress |-> 1] ELSE [currentPage |-> 2]

StoreInit ==
  /\ SchedIdle
  /\ text = <<>>
  /\ ParseIdle
  /\ DateIdle
  /\ WeekIdle
  /\ StoreIdle
  /\ MarkIdle
  /\ AppIdle
  /\ DistIdle

\* Both backends record the call and what it returned.
Called(op, id, fault, l, r) ==
  /\ localItems' = l.items
  /\ remoteRows' = r.rows
  /\ storeCall' = [op |-> op, id |-> id, fault |-> fault]
  /\ storeResult' = [local |-> l.result, remote |-> r.result]
  /\ localBefore' = localItems
  /\ faultSeen' = (faultSeen \/ fault # "none")

\* materialStorage.add(scheduleBook(...)) / add(scheduleVideo(...))
StoreAdd ==
  /\ clock < MaxWrites
  /\ \E id \in MaterialIds, base \in {StoreBook, StoreVideo},
        description \in Descriptions, fault \in Faults :
       /\ FindIndex(localItems, id) = 0
       /\ FindIndex(remoteRows, id) = 0
       /\ LET m == Registered(base, id, description, clock)
          IN Called("add", id, fault,
                    localAdd(localItems, m, fault = "local"),
                    supabaseAdd(remoteRows, m, fault = "remote"))
  /\ clock' = clock + 1
  /\ UNCHANGED <<planMaterials, planWeekStart, weeklyPlan>>
  /\ UNCHANGED <<schedVars, parseVars, dateVars, markVars, appVars, distVars>>

\* materialStorage.update(id, updates)
StoreUpdate ==
  /\ clock < MaxWrites
  /\ \E id \in MaterialIds, fault \in Faults, refreshed \in BOOLEAN :
       LET updates == ProgressUpdate(localGetById(localItems, id))
       IN Called("update", id, fault,
                 localUpdate(localItems, id, updates, clock, fault = "local"),
                 supabaseUpdate(remoteRows, id, updates, clock, refreshed,
                                fault = "remote"))
  /\ clock' = clock + 1
  /\ UNCHANGED <<planMaterials, planWeekStart, weeklyPlan>>
  /\ UNCHANGED <<schedVars, parseVars, dateVars, markVars, appVars, distVars>>

\* materialStorage.delete(id)
StoreDelete ==
  /\ clock < MaxWrites
  /\ \E id \in MaterialIds, fault \in Faults :
       Called("delete", id, fault,
              localDelete(localItems, id, fault = "local"),
              supabaseDelete(remoteRows, id, fault = "remote"))
  /\ clock' = clock + 1
  /\ UNCHANGED <<planMaterials, planWeekStart, weeklyPlan>>
  /\ UNCHANGED <<schedVars, parseVars, dateVars, markVars, appVars, distVars>>

\* materialStorage.clear()
StoreClear ==
  /\ clock < MaxWrites
  /\ \E fault \in Faults :
       Called("clear", 0, fault,
              localClear(localItems, fault = "local"),
              supabaseClear(remoteRows, fault = "remote"))
  /\ clock' = clock + 1
  /\ UNCHANGED <<planMaterials, planWeekStart, weeklyPlan>>
  /\ UNCHANGED <<schedVars, parseVars, dateVars, markVars, appVars, distVars>>

StoreNext ==
  \/ StoreAdd
  \/ StoreUpdate
  \/ StoreDelete
  \/ StoreClear

StoreSpec == StoreInit /\ [][StoreNext]_vars

\* ---------------------------------------------------- completion keys
\* `${materialId}-${date}`; the id is a UUID and the date a YYYY-MM-DD key,
\* both of fixed length, so the key determines the pair.
Key(materialId, date) == <<materialId, "-", date>>

\* ---- the localStorage backend: the stored array read into a Set, changed
\* and written back.  throws: localStorage.setItem throws; the error is
\* logged and the call returns.
localMarkCompleted(keys, materialId, date, throws) ==
  IF throws THEN keys ELSE keys \cup {Key(materialId, date)}

\* Mutant: un-marking a date un-marks the material's other dates too.
localMarkIncomplete_WholeMaterial(keys, materialId, date, throws) ==
  IF throws THEN keys ELSE {k \in keys : k[1] # materialId}

localMarkIncomplete(keys, materialId, date, throws) ==
  IF throws THEN keys ELSE keys \ {Key(materialId, date)}

localIsCompleted(keys, materialId, date) == Key(materialId, date) \in keys

\* ---- the Supabase backend: table completed_tasks, one row per pair
\* (upsert on conflict material_id, task_date).
supabaseMarkCompleted(rows, materialId, date, fails) ==
  IF fails THEN rows
  ELSE rows \cup {[material_id |-> materialId, task_date |-> date]}

supabaseMarkIncomplete(rows, materialId, date, fails) ==
  IF fails THEN rows
  ELSE {row \in rows : ~(row.material_id = materialId /\ row.task_date = date)}

\* .single(): data when exactly one row matches.
supabaseIsCompleted(rows, materialId, date) ==
  Cardinality({row \in rows : row.material_id = materialId /\ row.task_date = date}) = 1

supabaseCompletedKeys(rows) == {Key(row.material_id, row.task_date) : row \in rows}

MarkInit ==
  /\ SchedIdle
  /\ text = <<>>
  /\ ParseIdle
  /\ DateIdle
  /\ WeekIdle
  /\ StoreIdle
  /\ MarkIdle
  /\ AppIdle
  /\ DistIdle

\* completedTasksStorage.markCompleted(materialId, date) on both backends
MarkCompleted ==
  /\ \E pair \in Pairs, fails \in BOOLEAN :
       /\ localCompleted' = localMarkCompleted(localCompleted, pair[1], pair[2], fails)
       /\ remoteCompleted' =
            supabaseMarkCompleted(remoteCompleted, pair[1], pair[2], fails)
       /\ markCall' = [op |-> "markCompleted", pair |-> pair, fails |-> fails]
       /\ lastMark' = IF fails THEN lastMark
                      ELSE [lastMark EXCEPT ![pair] = "markCompleted"]
  /\ UNCHANGED <<schedVars, parseVars, dateVars, weekVars, storeVars, appVars, distVars>>

\* completedTasksStorage.markIncomplete(materialId, date) on both backends
MarkIncomplete ==
  /\ \E pair \in Pairs, fails \in BOOLEAN :
       /\ localCompleted' = localMarkIncomplete(localCompleted, pair[1], pair[2], fails)
       /\ remoteCompleted' =
            supabaseMarkIncomplete(remoteCompleted, pair[1], pair[2], fails)
       /\ markCall' = [op |-> "markIncomplete", pair |-> pair, fails |-> fails]
       /\ lastMark' = IF fails THEN lastMark
                      ELSE [lastMark EXCEPT ![pair] = "markIncomplete"]
  /\ UNCHANGED <<schedVars, parseVars, dateVars, weekVars, storeVars, appVars, distVars>>

MarkNext ==
  \/ MarkCompleted
  \/ MarkIncomplete

MarkSpec == MarkInit /\ [][MarkNext]_vars

\* ------------------------------------------------- export and import
\* The g-th of the five groups of a material's UUID and of the three groups
\* of a YYYY-MM-DD date key, the pieces a '-' separates: strings that are
\* neither an id nor a date key.
UuidGroup(id, g) == 10 * id + g
DateGroup(date, g) == 100 + 10 * date + g

\* taskKey.split('-')
splitKey(taskKey) ==
  [g \in 1 .. 5 |-> UuidGroup(taskKey[1], g)]
    \o [g \in 1 .. 3 |-> DateGroup(taskKey[3], g)]

\* JSON.parse of what exportAllData returns, localStorage backend; settings
\* and exportedAt are left out, and the array of keys is kept as the set it
\* was made from.
localExportAllData(items, keys) ==
  [materials |-> localGetAll(items), completedTasks |-> keys]

\* importAllData, localStorage backend.  throws names the setItem that
\* throws, "none" when none does; what was written before it stays.
localImportAllData(items, keys, data, throws) ==
  [items |-> IF throws = "materials" THEN items ELSE data.materials,
   keys |-> IF throws \in {"materials", "completedTasks"} THEN keys
            ELSE data.completedTasks,
   result |-> IF throws = "none" THEN Success ELSE Failure(handleStorageError)]

\* JSON.parse of what exportAllData returns, Supabase backend.
supabaseExportAllData(rows, completed) ==
  [materials |-> supabaseGetAll(rows),
   completedTasks |-> supabaseCompletedKeys(completed)]

\* for (const material of data.materials) await materialStorage.add(material):
\* what add returns is dropped.  The insert fails for the ids in failing, and
\* for an id the table already holds (id is the primary key).
RECURSIVE AddAll(_, _, _)
AddAll(rows, materials, failing) ==
  IF materials = <<>> THEN rows
  ELSE LET m == Head(materials)
           added == supabaseAdd(rows, m, m.id \in failing \/ FindIndex(rows, m.id) # 0)
       IN AddAll(added.rows, Tail(materials), failing)

\* for (const taskKey of data.completedTasks): the first two pieces of the
\* split key go to markCompleted.
RECURSIVE MarkAll(_, _, _)
MarkAll(completed, taskKeys, fails) ==
  IF taskKeys = {} THEN completed
  ELSE LET taskKey == CHOOSE k \in taskKeys : TRUE
           pieces == splitKey(taskKey)
           materialId == pieces[1]
           date == pieces[2]
       IN MarkAll(supabaseMarkCompleted(completed, materialId, date, fails),
                  taskKeys \ {taskKey}, fails)

\* importAllData, Supabase backend.  fault says which requests return an
\* error: the two clears, the inserts of some ids, the upserts.
supabaseImportAllData(rows, completed, data, fault) ==
  LET cleared == supabaseClear(rows, fault.clearMaterials).rows
      unmarked == IF fault.clearCompleted THEN completed ELSE {}
  IN [rows |-> AddAll(cleared, data.materials, fault.adds),
      completed |-> MarkAll(unmarked, data.completedTasks, fault.marks),
      result |-> Success]

\* What the stores hold before the export: nothing, a book, or a book and a
\* video added later, and completion keys for some pairs.
BackupStoredLists ==
  LET book == Registered(StoreBook, 1, Str("memo"), 0)
      video == Registered(StoreVideo, 2, Undefined, 1)
  IN {<<>>, <<book>>, <<book, video>>}

LocalImportFaults == {"none", "materials", "completedTasks", "settings"}
NoFault ==
  [clearMaterials |-> FALSE, clearCompleted |-> FALSE, adds |-> {}, marks |-> FALSE]
RemoteImportFaults ==
  [clearMaterials : BOOLEAN, clearCompleted : BOOLEAN,
   adds : SUBSET (1 .. 2), marks : BOOLEAN]

BackupInit ==
  /\ SchedIdle
  /\ text = <<>>
  /\ ParseIdle
  /\ DateIdle
  /\ WeekIdle
  /\ AppIdle
  /\ DistIdle
  /\ \E stored \in BackupStoredLists :
       /\ localItems = [k \in 1 .. Len(stored) |-> JSONRoundTrip(stored[k])]
       /\ remoteRows = AddAll(<<>>, stored, {})
  /\ \E marked \in SUBSET Pairs :
       /\ localCompleted = {Key(pair[1], pair[2]) : pair \in marked}
       /\ remoteCompleted =
            {[material_id |-> pair[1], task_date |-> pair[2]] : pair \in marked}
  /\ storeCall = NoCall
  /\ storeResult = [local |-> NoResult, remote |-> NoResult]
  /\ localBefore = <<>>
  /\ faultSeen = FALSE
  /\ markCall = NoCall
  /\ lastMark = [pair \in Pairs |-> "none"]

\* exportAllData() on both backends
ExportAllData ==
  /\ storeCall = NoCall
  /\ storeCall' = [op |-> "exportAllData",
                   local |-> localExportAllData(localItems, localCompleted),
                   remote |-> supabaseExportAllData(remoteRows, remoteCompleted)]
  /\ UNCHANGED <<localItems, remoteRows, storeResult, localBefore, faultSeen>>
  /\ UNCHANGED <<schedVars, parseVars, dateVars, weekVars, markVars, appVars, distVars>>

\* importAllData(exported) on both backends
ImportAllData ==
  /\ storeCall.op = "exportAllData"
  /\ \E throws \in LocalImportFaults, fault \in RemoteImportFaults :
       LET l == localImportAllData(localItems, localCompleted, storeCall.local, throws)
           r == supabaseImportAllData(remoteRows, remoteCompleted, storeCall.remote, fault)
       IN /\ localItems' = l.items
          /\ localCompleted' = l.keys
          /\ remoteRows' = r.rows
          /\ remoteCompleted' = r.completed
          /\ storeResult' = [local |-> l.result, remote |-> r.result]
          /\ storeCall' = [op |-> "importAllData",
                           local |-> storeCall.local,
                           remote |-> storeCall.remote,
                           throws |-> throws,
                           fault |-> fault]
          /\ faultSeen' = (throws # "none" \/ fault # NoFault)
  /\ localBefore' = localItems
  /\ UNCHANGED <<markCall, lastMark>>
  /\ UNCHANGED <<schedVars, parseVars, dateVars, weekVars, appVars, distVars>>

BackupNext ==
  \/ ExportAllData
  \/ ImportAllData

BackupSpec == BackupInit /\ [][BackupNext]_vars

\* ---------------------------------------------------------------- App
\* What localStorage holds when the App starts: nothing, a book in
\* progress, a video, or both, saved earlier.
AppStoredLists ==
  LET book == WithId(updateBookProgress(PlanBook, 1), 1)
      video == WithId(PlanVideo, 2)
  IN {<<>>, <<book>>, <<video>>, <<book, video>>, <<video, book>>}

\* useMemo(() => generateWeeklyPlan(materials), [materials]): the plan is
\* made again only when materials changes.
useMemoWeeklyPlan(plan, materials, newMaterials, now, off) ==
  IF newMaterials = materials THEN plan
  ELSE generateWeeklyPlan(newMaterials, <<>>, now, off)

AppInit ==
  /\ tz \in TZOffsets
  /\ material = NoMaterial
  /\ queryDate = NoDate
  /\ task = Null
  /\ text = <<>>
  /\ ParseIdle
  /\ DateIdle
  /\ MarkIdle
  /\ planMaterials = <<>>
  /\ planWeekStart = <<>>
  /\ clock = 0
  /\ weeklyPlan = generateWeeklyPlan(<<>>, <<>>, 0, tz)
  /\ localItems \in AppStoredLists
  /\ remoteRows = <<>>
  /\ storeCall = NoCall
  /\ storeResult = [local |-> NoResult, remote |-> NoResult]
  /\ localBefore = <<>>
  /\ faultSeen = FALSE
  /\ AppIdle
  /\ DistIdle

\* The effect at mount: materials and completedTasks are read from storage.
AppLoad ==
  /\ appCall = NoCall
  /\ appMaterials' = localGetAll(localItems)
  /\ completedTasks' = localCompleted
  /\ weeklyPlan' = useMemoWeeklyPlan(weeklyPlan, appMaterials,
                                     localGetAll(localItems), clock, tz)
  /\ appCall' = [op |-> "load"]
  /\ UNCHANGED <<planMaterials, planWeekStart, clock>>
  /\ UNCHANGED <<localCompleted, remoteCompleted, markCall, lastMark>>
  /\ UNCHANGED <<schedVars, parseVars, dateVars, storeVars, distVars>>

\* Mutant: ticking a book's task moves the book's currentPage to the end
\* page.
materialsAfterToggle_AdvanceBook(materials, materialId, keys) ==
  [n \in 1 .. Len(materials) |->
     IF materials[n].id = materialId /\ materials[n].type = "book"
       THEN [materials[n] EXCEPT !.currentPage = materials[n].endPage]
       ELSE materials[n]]

\* The last block of handleTaskToggle: it looks the material up and, for a
\* book, lists the completed keys, and assigns nothing.
materialsAfterToggle(materials, materialId, keys) == materials

\* handleTaskToggle(materialId, date, completed), called by the checkbox of
\* a task of the weekly plan with completed = !isCompleted.
HandleTaskToggle ==
  /\ appCall # NoCall
  /\ \E k \in 1 .. Len(weeklyPlan.days), throws \in BOOLEAN :
       \E p \in 1 .. Len(weeklyPlan.days[k].tasks) :
         LET materialId == weeklyPlan.days[k].tasks[p].materialId
             date == weeklyPlan.days[k].date
             completed == ~(Key(materialId, date) \in completedTasks)
             newMaterials == materialsAfterToggle(appMaterials, materialId, completedTasks)
         IN /\ localCompleted' =
                 IF completed
                   THEN localMarkCompleted(localCompleted, materialId, date, throws)
                   ELSE localMarkIncomplete(localCompleted, materialId, date, throws)
            /\ completedTasks' =
                 IF completed THEN completedTasks \cup {Key(materialId, date)}
                 ELSE completedTasks \ {Key(materialId, date)}
            /\ appMaterials' = newMaterials
            /\ weeklyPlan' = useMemoWeeklyPlan(weeklyPlan, appMaterials,
                                               newMaterials, clock, tz)
            /\ appCall' = [op |-> "toggle", materialId |-> materialId,
                           date |-> date, completed |-> completed]
  /\ UNCHANGED <<planMaterials, planWeekStart, clock>>
  /\ UNCHANGED <<remoteCompleted, markCall, lastMark>>
  /\ UNCHANGED <<schedVars, parseVars, dateVars, storeVars, distVars>>

AppNext ==
  \/ AppLoad
  \/ HandleTaskToggle

AppSpec == AppInit /\ [][AppNext]_vars

\* ------------------------------------- sections distributed over the days
\* videoParser.calculateDailySections: Math.ceil(totalSections / totalDays)
calculateDailySections(totalSections, totalDays) == MathCeilDiv(totalSections, totalDays)

\* Map.prototype.set
MapSet(map, key, value) ==
  [k \in (DOMAIN map) \cup {key} |-> IF k = key THEN value ELSE map[k]]

\* The while loop of distributeSectionsAcrossDays: the inner for loop takes
\* the next sectionsPerDay sections, or those that are left.
RECURSIVE DistributeLoop(_, _, _, _, _, _)
DistributeLoop(secs, endDate, sectionsPerDay, currentDate, sectionIndex, map) ==
  IF sectionIndex < Len(secs) /\ currentDate <= endDate
    THEN LET dateKey == toISOString(currentDate).date
             daySections == Slice(secs, sectionIndex, sectionIndex + sectionsPerDay)
         IN DistributeLoop(secs, endDate, sectionsPerDay,
                           currentDate + TicksPerDay,
                           sectionIndex + Len(daySections),
                           IF Len(daySections) > 0
                             THEN MapSet(map, dateKey, daySections)
                             ELSE map)
    ELSE map

\* videoParser.distributeSectionsAcrossDays; the value is the Map, a
\* function from date keys to section lists.  With startDate after endDate
\* the loop body never runs and the rate, a division by a day count that
\* may be zero or negative, is never read.
distributeSectionsAcrossDays(secs, startDate, endDate) ==
  IF startDate > endDate THEN <<>>
  ELSE LET daysDiff == MathCeilDiv(endDate - startDate, TicksPerDay) + 1
           sectionsPerDay == calculateDailySections(Len(secs), daysDiff)
       IN DistributeLoop(secs, endDate, sectionsPerDay, startDate, 0, <<>>)

DistInit ==
  /\ tz \in TZOffsets
  /\ material = NoMaterial
  /\ queryDate = NoDate
  /\ task = Null
  /\ text = <<>>
  /\ ParseIdle
  /\ ExtIdle

\* distributeSectionsAcrossDays called with the sections and the dates the
\* video was scheduled with.
DistributeSections ==
  /\ material.type = "video"
  /\ distribution = NoMap
  /\ distribution' =
       [made |-> TRUE,
        entries |-> distributeSectionsAcrossDays(material.sections,
                                                 NewDate(material.startDate),
                                                 NewDate(material.endDate))]
  /\ UNCHANGED <<schedVars, parseVars>>
  /\ UNCHANGED <<dateVars, weekVars, storeVars, markVars, appVars>>

DistNext ==
  \/ ScheduleVideo
  \/ DistributeSections
  \/ GenerateVideoTask

DistSpec == DistInit /\ [][DistNext]_vars

\* ------------------------------------------------- vocabulary of the claims
\* The local calendar day an instant falls on.
LocalDay(d, off) == (d + off) \div TicksPerDay

\* The number of calendar dates of [startDate, endDate], less one.
LastDayOfRange(m, off) ==
  LocalDay(NewDate(m.endDate), off) - LocalDay(NewDate(m.startDate), off)

\* An instant on the k-th calendar date of the material's range (noon-ish:
\* the last tick of the day).
DateOfRange(m, k, off) ==
  (LocalDay(NewDate(m.startDate), off) + k) * TicksPerDay - off + (TicksPerDay - 1)

BookTaskOn(book, k, off) == generateBookTaskForDate(book, DateOfRange(book, k, off), off)
VideoTaskOn(video, k, off) == generateVideoTaskForDate(video, DateOfRange(video, k, off), off)

PagesOf(t) == IF t = Null THEN 0 ELSE t.endPage - t.startPage + 1

RECURSIVE SumPages(_, _, _)
SumPages(book, k, off) ==
  IF k < 0 THEN 0 ELSE PagesOf(BookTaskOn(book, k, off)) + SumPages(book, k - 1, off)

RECURSIVE ConcatSections(_, _, _)
ConcatSections(video, k, off) ==
  IF k < 0 THEN <<>>
  ELSE ConcatSections(video, k - 1, off)
         \o (IF VideoTaskOn(video, k, off) = Null THEN <<>>
             ELSE VideoTaskOn(video, k, off).sections)

\* A book whose page range is not empty and fits in its page total, either
\* reading of totalPages (endPage, or endPage - startPage + 1) included.
PagesConsistent(book) ==
  /\ book.startPage <= book.endPage
  /\ book.endPage - book.startPage + 1 <= book.totalPages

StartsBeforeEnd(m) == NewDate(m.startDate) <= NewDate(m.endDate)

\* ------------------------------------------------------------------ claims

\* C1: for a book made by scheduleBook with totalPages = P over [S, E] and
\* not yet finished, the page counts of the tasks of all dates of [S, E] sum
\* to at most P, and the last date that yields a task ends on the book's
\* configured end page.
C1_BookPagesReachEnd ==
  (/\ material.type = "book"
   /\ PagesConsistent(material)
   /\ StartsBeforeEnd(material)
   /\ ~BookFinished(material))
  => LET n == LastDayOfRange(material, tz)
         yielding == {k \in 0 .. n : BookTaskOn(material, k, tz) # Null}
     IN /\ SumPages(material, n, tz) <= material.totalPages
        /\ yielding # {}
        /\ \E k \in yielding :
             /\ \A j \in yielding : j <= k
             /\ BookTaskOn(material, k, tz).endPage = material.endPage

\* C2: for a video made by scheduleVideo with N sections and
\* currentProgress < N, the section lists of the tasks of all dates of
\* [startDate, endDate], concatenated in date order, are exactly the N
\* section titles in their original order.
C2_VideoSectionsAllScheduled ==
  (/\ material.type = "video"
   /\ StartsBeforeEnd(material)
   /\ ~VideoFinished(material))
  => ConcatSections(material, LastDayOfRange(material, tz), tz)
       = [i \in 1 .. Len(material.sections) |-> material.sections[i].title]

\* C3: once a book's currentPage equals its totalPages, or a video's
\* currentProgress equals its number of sections, no date yields a task.
C3_FinishedYieldsNoTask ==
  /\ (material.type = "book" /\ PagesConsistent(material)
        /\ material.currentPage = material.totalPages)
       => \A date \in QueryInstants : generateBookTaskForDate(material, date, tz) = Null
  /\ (material.type = "video" /\ material.currentProgress = Len(material.sections))
       => \A date \in QueryInstants : generateVideoTaskForDate(material, date, tz) = Null


IsMaterial(m) == m.type \in {"book", "video"}

\* The generator that generateWeeklyPlan picks for the material's type.
TaskFor(m, date, off) ==
  IF m.type = "book" THEN generateBookTaskForDate(m, date, off)
  ELSE generateVideoTaskForDate(m, date, off)

InsideRange(m, date, off) ==
  /\ LocalDay(NewDate(m.startDate), off) <= LocalDay(date, off)
  /\ LocalDay(date, off) <= LocalDay(NewDate(m.endDate), off)

\* C4: a date one day before startDate or one day after endDate, and more
\* generally any date whose calendar day lies outside [startDate, endDate],
\* yields no task; a date whose calendar day lies inside is not rejected by
\* the range check.
C4_OutsideRangeNoTask ==
  IsMaterial(material) =>
    /\ TaskFor(material, NewDate(material.startDate) - TicksPerDay, tz) = Null
    /\ TaskFor(material, NewDate(material.endDate) + TicksPerDay, tz) = Null
    /\ \A date \in QueryInstants :
         /\ ~InsideRange(material, date, tz) => TaskFor(material, date, tz) = Null
         /\ InsideRange(material, date, tz) => ~OutOfRange(material, date, tz)

\* The call the last Generate step made is the one the state records.
TaskIsCurrent ==
  /\ IsMaterial(material)
  /\ queryDate # NoDate
  /\ task = TaskFor(material, queryDate[1], tz)

C4_Witness ==
  /\ TaskIsCurrent
  /\ material.type = "book"
  /\ PagesConsistent(material)
  /\ ~BookFinished(material)
  /\ material.startDate.time # material.endDate.time
  /\ queryDate[1] = NewDate(material.endDate) + TicksPerDay
  /\ task = Null

\* C5: the book task of the date with day index d (0 on startDate) has
\* startPage = configured startPage + d * pagesPerDay and
\* endPage = min(configured startPage + (d + 1) * pagesPerDay - 1, configured
\* endPage); a 100-page book from page 1 over 10 days has pages 21-30 on its
\* third day.
C5_BookTaskPages ==
  /\ material.type = "book" =>
       \A date \in QueryInstants :
         LET t == generateBookTaskForDate(material, date, tz)
             d == LocalDay(date, tz) - LocalDay(NewDate(material.startDate), tz)
         IN t # Null =>
              /\ t.startPage = material.startPage + d * material.pagesPerDay
              /\ t.endPage = Min(material.startPage + (d + 1) * material.pagesPerDay - 1,
                                 material.endPage)
  /\ LET book == scheduleBook(1, 100, 100, 0, 9 * TicksPerDay)
         t == generateBookTaskForDate(book, 2 * TicksPerDay, tz)
     IN book.pagesPerDay = 10 /\ t # Null /\ t.startPage = 21 /\ t.endPage = 30

C5_Witness ==
  /\ TaskIsCurrent
  /\ material.type = "book"
  /\ task # Null
  /\ task.startPage > material.startPage
  /\ task.endPage = material.endPage
  /\ task.endPage < material.startPage
       + (LocalDay(queryDate[1], tz) - LocalDay(NewDate(material.startDate), tz) + 1)
           * material.pagesPerDay - 1

\* The titles of the sections with 0-based indices from .. to - 1.
TitlesOf(video, from, to) ==
  [k \in 1 .. (IF to > from THEN to - from ELSE 0) |-> video.sections[from + k].title]

SectionsOfTask(t) == IF t = Null THEN <<>> ELSE t.sections

\* The inclusive day count scheduleVideo divides by.
InclusiveDays(m) == getDaysBetween(NewDate(m.startDate), NewDate(m.endDate)) + 1

C7_StoredRateIsCeiling ==
  /\ material.type = "book" =>
       /\ material.pagesPerDay * InclusiveDays(material) >= material.totalPages
       /\ (material.pagesPerDay - 1) * InclusiveDays(material) < material.totalPages
  /\ material.type = "video" =>
       /\ material.sectionsPerDay * InclusiveDays(material) >= Len(material.sections)
       /\ (material.sectionsPerDay - 1) * InclusiveDays(material) < Len(material.sections)

C7_Witness ==
  \/ /\ material.type = "book"
     /\ material.totalPages % InclusiveDays(material) # 0
     /\ material.pagesPerDay > 1
  \/ /\ material.type = "video"
     /\ Len(material.sections) % InclusiveDays(material) # 0
     /\ material.sectionsPerDay > 1

\* C8: every material returned by scheduleBook or scheduleVideo has a
\* strictly positive pagesPerDay / sectionsPerDay and startDate <= endDate.
C8_PositiveRateOrderedDates ==
  /\ material.type = "book" =>
       material.pagesPerDay > 0 /\ StartsBeforeEnd(material)
  /\ material.type = "video" =>
       material.sectionsPerDay > 0 /\ StartsBeforeEnd(material)


\* ---------------------------------------------------- claims on the parser
\* Math.ceil(seconds / 60) for a two-digit seconds field.
CeilMinutesOf(seconds) == IF seconds = 0 THEN 0 ELSE IF seconds <= 60 THEN 1 ELSE 2

ExpectedDuration(t) == t.hours * 60 + t.minutes + CeilMinutesOf(t.seconds) + 20

TitlesOfSections(secs) == [k \in 1 .. Len(secs) |-> secs[k].title]
DurationsOfSections(secs) == [k \in 1 .. Len(secs) |-> secs[k].duration]

\* C9: parseVideoText of a transcript made of N (title line, MM:SS line)
\* pairs returns exactly N sections in input order, the i-th with the i-th
\* title (surrounding blanks dropped) and duration = minutes +
\* ceil(seconds / 60) + 20, hours * 60 more for HH:MM:SS; Intro/05:39,
\* Basics/12:45 gives durations 26 and 33, totalDuration 59, totalCount 2.
C9_PairTranscriptRoundTrip ==
  pc = "done" =>
    /\ \A ps \in PairSeqs :
         text = TranscriptOf(ps) =>
           /\ result.totalCount = Len(ps)
           /\ TitlesOfSections(result.sections) = [k \in 1 .. Len(ps) |-> trim(ps[k][1])]
           /\ DurationsOfSections(result.sections)
                = [k \in 1 .. Len(ps) |-> ExpectedDuration(ps[k][2])]
    /\ text = ExampleText =>
         /\ TitlesOfSections(result.sections)
              = << <<"I", "n", "t", "r", "o">>, <<"B", "a", "s", "i", "c", "s">> >>
         /\ DurationsOfSections(result.sections) = <<26, 33>>
         /\ result.totalDuration = 59
         /\ result.totalCount = 2

\* A two-pair transcript, one duration with seconds to round up and one in
\* HH:MM:SS form, parsed to the end.
C9_Witness ==
  /\ pc = "done"
  /\ \E ps \in PairSeqs :
       /\ Len(ps) = 2
       /\ text = TranscriptOf(ps)
       /\ ps[1][2].seconds > 0 /\ ps[1][2].hours = 0
       /\ ps[2][2].hours > 0
       /\ ps[1][1] # ps[2][1]
  /\ Len(result.sections) = 2

\* How the loop classifies a trimmed line.
SkippedLine(line) == line = <<>> \/ IsAllDigits(line) \/ IsNoise(line)
DurationLine(line) == ~SkippedLine(line) /\ containsTimeFormat(line)
TitleLine(line) == ~SkippedLine(line) /\ ~containsTimeFormat(line)

\* Line j is a duration line that finds a pending title: the nearest line
\* before it that is not skipped is a title line, line PendingOf(j).
Emits(ls, j) ==
  /\ DurationLine(trim(ls[j]))
  /\ \E k \in 1 .. (j - 1) :
       /\ TitleLine(trim(ls[k]))
       /\ \A l \in (k + 1) .. (j - 1) : SkippedLine(trim(ls[l]))
PendingOf(ls, j) ==
  CHOOSE k \in 1 .. (j - 1) :
    /\ TitleLine(trim(ls[k]))
    /\ \A l \in (k + 1) .. (j - 1) : SkippedLine(trim(ls[l]))

C10_StepEmitsOnlyWithPendingTitle ==
  (pc = "loop" /\ lineNo <= Len(lines)) =>
    LET line == trim(lines[lineNo])
    IN /\ sections' # sections =>
            /\ DurationLine(line)
            /\ currentTitle # <<>>
            /\ sections' = Append(sections, sections'[Len(sections')])
            /\ sections'[Len(sections')].title = currentTitle
            /\ currentTitle' = <<>>
       /\ (DurationLine(line) /\ currentTitle = <<>>) =>
            sections' = sections /\ currentTitle' = <<>>
       /\ TitleLine(line) =>
            sections' = sections /\ currentTitle' = line

C10_ResultIsThePairedTitles ==
  pc = "done" =>
    LET emitting == {j \in 1 .. Len(lines) : Emits(lines, j)}
    IN /\ Len(result.sections) = Cardinality(emitting)
       /\ \A j \in emitting :
            result.sections[Cardinality({e \in emitting : e <= j})].title
              = trim(lines[PendingOf(lines, j)])

\* C10: a section is emitted only by a duration line that finds a pending
\* title; a duration line with no pending title emits nothing; a title
\* followed by another title is overwritten and lost; a title with no later
\* duration line emits nothing; after an emission the pending title is empty,
\* so one title never yields two sections.
C10_EmissionNeedsPendingTitle ==
  /\ [][C10_StepEmitsOnlyWithPendingTitle]_vars
  /\ [](C10_ResultIsThePairedTitles)

\* A title, its duration and a second duration line: one section only.
C10_Witness ==
  /\ pc = "done"
  /\ Len(lines) = 3
  /\ TitleLine(trim(lines[1]))
  /\ DurationLine(trim(lines[2]))
  /\ DurationLine(trim(lines[3]))
  /\ Len(result.sections) = 1


\* ------------------------------------------------ claims of the second group
\* C11: calculateProgress returns an integer in 0..100 for every material.
C11_ProgressIsPercentage ==
  LET r == calculateProgress(material)
  IN /\ r.kind = "finite"
     /\ r.value \in 0 .. 100

\* The 0-based exclusive end of a video task's slice, read off the task: the
\* position in the material of the last title it lists (titles are distinct).
SliceEndOf(video, t) ==
  CHOOSE k \in 1 .. Len(video.sections) :
    video.sections[k].title = t.sections[Len(t.sections)]

\* C19: a generated task's completed flag is derived from the stored
\* progress counter alone: currentPage >= the task's endPage for a book
\* task, currentProgress >= the end index of the slice for a video task.
C19_CompletedFromProgressCounter ==
  /\ material.type = "book" =>
       \A date \in QueryInstants :
         LET t == generateBookTaskForDate(material, date, tz)
         IN t # Null => (t.completed <=> material.currentPage >= t.endPage)
  /\ material.type = "video" =>
       \A date \in QueryInstants :
         LET t == generateVideoTaskForDate(material, date, tz)
         IN t # Null =>
              (t.completed <=> material.currentProgress >= SliceEndOf(material, t))

\* A book task that is reported completed while the book is not finished.
C19_Witness ==
  /\ TaskIsCurrent
  /\ material.type = "book"
  /\ task # Null
  /\ task.completed
  /\ material.currentPage >= task.startPage
  /\ material.currentPage < material.endPage

\* The number of whole days that cover x ticks: the least n with
\* n * TicksPerDay >= x.
WholeDaysCovering(x) ==
  CHOOSE n \in 0 .. x : n * TicksPerDay >= x /\ (n - 1) * TicksPerDay < x

\* C20 as stated: getDaysBetween is symmetric and non-negative,
\* getDaysBetween(a, b) = getDaysBetween(b, a) = ceil(|b - a| / 24h), it is 0
\* for equal instants, and adding one day to either argument changes the
\* result by exactly one.
C20_SymmetricAndStepsByOne ==
  gdbDays # <<>> =>
    /\ gdbDays[1] = getDaysBetween(gdbEnd, gdbStart)
    /\ gdbDays[1] >= 0
    /\ gdbDays[1] = WholeDaysCovering(Abs(gdbEnd - gdbStart))
    /\ gdbStart = gdbEnd => gdbDays[1] = 0
    /\ Abs(getDaysBetween(gdbStart + TicksPerDay, gdbEnd) - gdbDays[1]) = 1
    /\ Abs(getDaysBetween(gdbStart, gdbEnd + TicksPerDay) - gdbDays[1]) = 1

\* What adding one day to the argument x does to the day count of x and y.
DayCountAfterAddingADay(x, y, d) ==
  IF x >= y THEN d + 1
  ELSE IF y - x >= TicksPerDay THEN d - 1
  ELSE d

\* C20 amended: getDaysBetween is symmetric and non-negative, equals
\* ceil(|b - a| / 24h) and is 0 for equal instants; adding one day to an
\* argument that is not the earlier one raises the result by exactly one,
\* adding one day to the earlier argument lowers it by exactly one when the
\* two are at least a day apart and leaves it unchanged when they are less
\* than a day apart.
C20_SymmetricCeilOfDistance ==
  gdbDays # <<>> =>
    /\ gdbDays[1] = getDaysBetween(gdbEnd, gdbStart)
    /\ gdbDays[1] >= 0
    /\ gdbDays[1] = WholeDaysCovering(Abs(gdbEnd - gdbStart))
    /\ gdbStart = gdbEnd => gdbDays[1] = 0
    /\ getDaysBetween(gdbStart + TicksPerDay, gdbEnd)
         = DayCountAfterAddingADay(gdbStart, gdbEnd, gdbDays[1])
    /\ getDaysBetween(gdbStart, gdbEnd + TicksPerDay)
         = DayCountAfterAddingADay(gdbEnd, gdbStart, gdbDays[1])

\* The day count of two instants less than a day apart, the earlier one
\* being the one a day would be added to.
C20_Witness ==
  /\ gdbDays = <<1>>
  /\ gdbStart < gdbEnd
  /\ gdbEnd - gdbStart < TicksPerDay
  /\ getDaysBetween(gdbStart + TicksPerDay, gdbEnd) = 1

\* generateWeeklyPlan has returned.
PlanMade == weeklyPlan # NoPlan

\* C12: generateWeeklyPlan returns exactly seven entries on consecutive
\* dates in ascending order, for every weekStart argument and for the
\* default.
C12_SevenConsecutiveDays ==
  PlanMade =>
    /\ Len(weeklyPlan.days) = 7
    /\ \A k \in 1 .. (Len(weeklyPlan.days) - 1) :
         weeklyPlan.days[k + 1].date = weeklyPlan.days[k].date + 1

\* The instant of the k-th entry of the plan.
EntryInstant(k) == weeklyPlan.weekStart + (k - 1) * TicksPerDay

\* The per-date derivation for a material, with the material's id on the
\* task; Null for a material that is neither a book nor a video.
Derived(m, date, off) ==
  IF m.type = "book" /\ generateBookTaskForDate(m, date, off) # Null
    THEN generateBookTaskForDate(m, date, off) @@ [materialId |-> m.id]
  ELSE IF m.type = "video" /\ generateVideoTaskForDate(m, date, off) # Null
    THEN generateVideoTaskForDate(m, date, off) @@ [materialId |-> m.id]
  ELSE Null

\* Where the material with this id stands in the input.
PositionOf(id) ==
  CHOOSE n \in 1 .. Len(planMaterials) : planMaterials[n].id = id

\* C13: for each date of the weekly plan the task sequence is exactly the
\* non-null results of the per-date derivation over the materials in input
\* order: every task is some material's result, a material with a result
\* has exactly one task, any other material (the custom variant included)
\* has none, and the tasks stand in the order of their materials.
C13_TasksAreTheDerivedOnesInOrder ==
  PlanMade =>
    \A k \in 1 .. Len(weeklyPlan.days) :
      LET tasks == weeklyPlan.days[k].tasks
          date == EntryInstant(k)
      IN /\ \A p \in 1 .. Len(tasks) :
              \E n \in 1 .. Len(planMaterials) :
                /\ planMaterials[n].id = tasks[p].materialId
                /\ tasks[p] = Derived(planMaterials[n], date, tz)
         /\ \A n \in 1 .. Len(planMaterials) :
              Cardinality({p \in 1 .. Len(tasks) :
                             tasks[p].materialId = planMaterials[n].id})
                = IF Derived(planMaterials[n], date, tz) # Null THEN 1 ELSE 0
         /\ \A n \in 1 .. Len(planMaterials) :
              planMaterials[n].type = "custom" =>
                \A p \in 1 .. Len(tasks) : tasks[p].materialId # planMaterials[n].id
         /\ \A p, q \in 1 .. Len(tasks) :
              p < q => PositionOf(tasks[p].materialId) < PositionOf(tasks[q].materialId)

\* A day with a video's task followed by a book's, as the materials stand.
C13_Witness ==
  /\ PlanMade
  /\ Len(planMaterials) = 2
  /\ planMaterials[1].type = "video"
  /\ planMaterials[2].type = "book"
  /\ \E k \in 1 .. Len(weeklyPlan.days) :
       /\ Len(weeklyPlan.days[k].tasks) = 2
       /\ weeklyPlan.days[k].tasks[1].materialId = planMaterials[1].id
       /\ weeklyPlan.days[k].tasks[2].materialId = planMaterials[2].id

\* The label of the day of the week of a calendar day.
WeekdayOfDay(day) == DayNames[((day + 4) % DaysPerWeek) + 1]

\* C14: the date key is timezone-stable: for every entry of the weekly plan
\* the key formatDate gives names the calendar day that normalizeDate (the
\* date-only comparisons of the task derivation) and getDayOfWeek use for
\* the entry's instant, so the entry's label is the weekday of its key.
C14_DateKeyNamesTheLocalDay ==
  PlanMade =>
    \A k \in 1 .. Len(weeklyPlan.days) :
      /\ weeklyPlan.days[k].date = LocalDay(normalizeDate(EntryInstant(k), tz), tz)
      /\ weeklyPlan.days[k].date = LocalDay(EntryInstant(k), tz)
      /\ weeklyPlan.days[k].dayOfWeek = WeekdayOfDay(weeklyPlan.days[k].date)

\* C15: the two backends are interchangeable: after the same sequence of
\* add / update / delete / clear calls getAll returns the same materials
\* with the same field values in the same order on both, and so does
\* getById for every id.
C15_BackendsInterchangeable ==
  ~faultSeen =>
    /\ supabaseGetAll(remoteRows) = localGetAll(localItems)
    /\ \A id \in MaterialIds :
         supabaseGetById(remoteRows, id) = localGetById(localItems, id)

\* A write's outcome: success, or a failure whose ErrorState has hasError
\* set, the type 'storage' and a message.
IsOutcome(r) ==
  \/ r = Success
  \/ /\ r.success = FALSE
     /\ r.error.hasError = TRUE
     /\ r.error.type = "storage"
     /\ r.error.message # ""

\* C17: every materialStorage write returns success or a failure carrying
\* an ErrorState with hasError = true, type 'storage' and a message; update
\* of an id that is not stored returns such a failure and leaves the stored
\* collection unchanged; a write whose storage call throws leaves the
\* stored collection unchanged.
C17_WritesReportOutcome ==
  storeCall.op # "none" =>
    /\ IsOutcome(storeResult.local)
    /\ IsOutcome(storeResult.remote)
    /\ (storeCall.op = "update" /\ FindIndex(localBefore, storeCall.id) = 0) =>
         /\ storeResult.local # Success
         /\ localItems = localBefore
    /\ storeCall.fault = "local" =>
         /\ storeResult.local # Success
         /\ localItems = localBefore

\* An update of an id that is not stored, while another material is.
C17_Witness ==
  /\ storeCall.op = "update"
  /\ localBefore # <<>>
  /\ FindIndex(localBefore, storeCall.id) = 0
  /\ storeCall.fault = "none"
  /\ storeResult.local = Failure(NotFoundError)
  /\ localItems = localBefore

\* C16: after any sequence of markCompleted / markIncomplete calls that
\* succeed, isCompleted(m, d) is true iff the last call for (m, d) was
\* markCompleted, on both backends and in getAll; both operations are
\* idempotent and leave the membership of every other pair as it is.
C16_LastMarkDecides ==
  /\ \A pair \in Pairs :
       /\ localIsCompleted(localCompleted, pair[1], pair[2])
            <=> lastMark[pair] = "markCompleted"
       /\ supabaseIsCompleted(remoteCompleted, pair[1], pair[2])
            <=> lastMark[pair] = "markCompleted"
       /\ Key(pair[1], pair[2]) \in supabaseCompletedKeys(remoteCompleted)
            <=> lastMark[pair] = "markCompleted"
  /\ \A pair \in Pairs :
       LET once == localMarkCompleted(localCompleted, pair[1], pair[2], FALSE)
           undone == localMarkIncomplete(localCompleted, pair[1], pair[2], FALSE)
           onceRemote == supabaseMarkCompleted(remoteCompleted, pair[1], pair[2], FALSE)
           undoneRemote == supabaseMarkIncomplete(remoteCompleted, pair[1], pair[2], FALSE)
       IN /\ localMarkCompleted(once, pair[1], pair[2], FALSE) = once
          /\ localMarkIncomplete(undone, pair[1], pair[2], FALSE) = undone
          /\ supabaseMarkCompleted(onceRemote, pair[1], pair[2], FALSE) = onceRemote
          /\ supabaseMarkIncomplete(undoneRemote, pair[1], pair[2], FALSE) = undoneRemote
          /\ \A other \in Pairs \ {pair} :
               /\ localIsCompleted(once, other[1], other[2])
                    <=> localIsCompleted(localCompleted, other[1], other[2])
               /\ localIsCompleted(undone, other[1], other[2])
                    <=> localIsCompleted(localCompleted, other[1], other[2])
               /\ supabaseIsCompleted(onceRemote, other[1], other[2])
                    <=> supabaseIsCompleted(remoteCompleted, other[1], other[2])
               /\ supabaseIsCompleted(undoneRemote, other[1], other[2])
                    <=> supabaseIsCompleted(remoteCompleted, other[1], other[2])

\* A date un-marked again while another date of the same material and a
\* date of another material stay marked.
C16_Witness ==
  /\ markCall.op = "markIncomplete"
  /\ ~markCall.fails
  /\ lastMark[markCall.pair] = "markIncomplete"
  /\ \E other \in Pairs :
       /\ other[1] = markCall.pair[1]
       /\ other[2] # markCall.pair[2]
       /\ localIsCompleted(localCompleted, other[1], other[2])
  /\ \E other \in Pairs :
       /\ other[1] # markCall.pair[1]
       /\ supabaseIsCompleted(remoteCompleted, other[1], other[2])

\* The progress counter of each material of a list.
CountersOf(materials) ==
  [n \in 1 .. Len(materials) |->
     IF materials[n].type = "book" THEN materials[n].currentPage
     ELSE materials[n].currentProgress]

\* The completed flags of the tasks of a plan, day by day.
FlagsOf(plan) ==
  [k \in 1 .. Len(plan.days) |->
     [p \in 1 .. Len(plan.days[k].tasks) |-> plan.days[k].tasks[p].completed]]

WeekArgument == IF planWeekStart = <<>> THEN clock ELSE planWeekStart[1]

\* C21: for every date d, getWeekStart(d) is a Sunday not after d,
\* getWeekEnd(d) is the Saturday six days after getWeekStart(d) and not
\* before d (as calendar days), and neither call modifies its argument.
C21_WeekWindowHoldsTheDate ==
  PlanMade =>
    LET d == WeekArgument
        s == getWeekStartCall(d, tz)
        e == getWeekEndCall(d, tz)
    IN /\ getDay(s.returned, tz) = 0
       /\ LocalDay(s.returned, tz) <= LocalDay(d, tz)
       /\ getDay(e.returned, tz) = 6
       /\ LocalDay(e.returned, tz) = LocalDay(s.returned, tz) + 6
       /\ LocalDay(e.returned, tz) >= LocalDay(d, tz)
       /\ s.date = d
       /\ e.date = d
       /\ planWeekStart = <<>> => weeklyPlan.weekStart = s.returned
       /\ weeklyPlan.weekEnd = e.returned

\* A plan for a week given by a Wednesday, away from UTC.
C21_Witness ==
  /\ PlanMade
  /\ tz # 0
  /\ planWeekStart # <<>>
  /\ getDay(planWeekStart[1], tz) = 3
  /\ LocalDay(weeklyPlan.weekEnd, tz) = LocalDay(planWeekStart[1], tz) + 3

\* The sum of the durations of the first n sections.
RECURSIVE DurationOfFirst(_, _)
DurationOfFirst(secs, n) ==
  IF n = 0 THEN 0 ELSE DurationOfFirst(secs, n - 1) + secs[n].duration

\* C22: for every input text parseVideoText returns totalCount =
\* len(sections) and totalDuration = the sum of the sections' durations; the
\* i-th section (from 0) has order = i, id = 'video-i' and completed = false,
\* and every duration is at least 20.
C22_TotalsAndNumbering ==
  /\ \A i \in 1 .. Len(sections) :
       /\ sections[i].order = i - 1
       /\ sections[i].id = <<"video-", i - 1>>
       /\ sections[i].completed = FALSE
       /\ sections[i].duration >= 20
  /\ order = Len(sections)
  /\ pc = "done" =>
       /\ result.sections = sections
       /\ result.totalCount = Len(result.sections)
       /\ result.totalDuration = DurationOfFirst(result.sections, Len(result.sections))

\* A text of three lines or more that yields two sections of different
\* lengths.
C22_Witness ==
  /\ pc = "done"
  /\ Len(lines) > Len(result.sections) + 2
  /\ result.totalCount = 2
  /\ result.sections[1].duration # result.sections[2].duration
  /\ result.totalDuration = result.sections[1].duration + result.sections[2].duration

\* The lines the claim C23 is about, as they stand in the text.
BlankLine(raw) == \A n \in 1 .. Len(raw) : raw[n] \in WhiteSpace
NumericLine(raw) ==
  LET l == trim(raw) IN l # <<>> /\ \A n \in 1 .. Len(l) : l[n] \in Digits
NoiseLine(raw) ==
  LET l == trim(raw)
  IN \/ l = <<"mu", "ryo">>
     \/ \E w \in {NoiseDownload, NoiseLectureMaterial, NoiseClassMaterial} : includes(l, w)
LineToSkip(raw) == BlankLine(raw) \/ NumericLine(raw) \/ NoiseLine(raw)

\* The iteration over such a line changes nothing the loop keeps.
C23_SkipStep ==
  (pc = "loop" /\ lineNo <= Len(lines) /\ LineToSkip(lines[lineNo]))
    => UNCHANGED <<sections, currentTitle, order>>

\* A title line, then such lines only, then a duration line: the title's
\* section is in the result, with the duration of the duration line.
C23_SeparatedTitleYields ==
  pc = "done" =>
    \A k, j \in 1 .. Len(lines) :
      (/\ k < j
       /\ ~LineToSkip(lines[k]) /\ ~containsTimeFormat(trim(lines[k]))
       /\ \A l \in (k + 1) .. (j - 1) : LineToSkip(lines[l])
       /\ ~LineToSkip(lines[j]) /\ containsTimeFormat(trim(lines[j])))
      => \E i \in 1 .. Len(result.sections) :
           /\ result.sections[i].title = trim(lines[k])
           /\ result.sections[i].duration = parseTimeToMinutes(timeMatch(trim(lines[j])))

\* C23: a blank line, a purely numeric line and a noise line is skipped
\* before the time-pattern test: it emits no section even when it contains a
\* time pattern and leaves the pending title and the next order index
\* unchanged, so a title separated from its duration line by such lines
\* still yields its section.
C23_SkippedLinesChangeNothing ==
  /\ [][C23_SkipStep]_vars
  /\ [](C23_SeparatedTitleYields)

\* A title, a noise line with a time in it, the duration line: one section,
\* with the duration line's time.
C23_Witness ==
  /\ pc = "done"
  /\ Len(lines) = 3
  /\ ~LineToSkip(lines[1]) /\ ~containsTimeFormat(trim(lines[1]))
  /\ NoiseLine(lines[2]) /\ containsTimeFormat(trim(lines[2]))
  /\ includes(trim(lines[2]), NoiseClassMaterial)
  /\ Len(result.sections) = 1
  /\ result.sections[1].title = trim(lines[1])
  /\ result.sections[1].duration = parseTimeToMinutes(timeMatch(trim(lines[3])))
  /\ result.sections[1].duration # parseTimeToMinutes(timeMatch(trim(lines[2])))

\* C24: for a book that is not finished, the tasks of two consecutive dates
\* inside the range are contiguous and disjoint: whenever both dates yield
\* a task the later task's startPage is the earlier task's endPage + 1,
\* every task has startPage <= endPage, and all pages lie within the
\* configured [startPage, endPage].
C24_ConsecutiveTasksContiguous ==
  (material.type = "book" /\ ~BookFinished(material)) =>
    LET n == LastDayOfRange(material, tz)
    IN /\ \A k \in 0 .. n :
            LET t == BookTaskOn(material, k, tz)
            IN t # Null =>
                 /\ t.startPage <= t.endPage
                 /\ material.startPage <= t.startPage
                 /\ t.endPage <= material.endPage
       /\ \A k \in 0 .. (n - 1) :
            LET t == BookTaskOn(material, k, tz)
                u == BookTaskOn(material, k + 1, tz)
            IN (t # Null /\ u # Null) => u.startPage = t.endPage + 1

\* The task of the k-th calendar date of the material's range.
TaskOn(m, k, off) == TaskFor(m, DateOfRange(m, k, off), off)

\* C25: completion flags are monotone in the date: for one material and a
\* fixed progress counter, if the task generated for a date is completed
\* then every earlier date of the range has a task and it is completed too
\* (books and videos).
C25_CompletionMonotoneInDate ==
  IsMaterial(material) =>
    \A k \in 0 .. LastDayOfRange(material, tz) :
      LET t == TaskOn(material, k, tz)
      IN (t # Null /\ t.completed) =>
           \A j \in 0 .. (k - 1) :
             LET e == TaskOn(material, j, tz)
             IN e # Null /\ e.completed

\* A video asked for its second date, whose task is completed as the first
\* date's is, and a section is still to come.
C25_Witness ==
  /\ TaskIsCurrent
  /\ material.type = "video"
  /\ task # Null
  /\ task.completed
  /\ LocalDay(queryDate[1], tz) = LocalDay(NewDate(material.startDate), tz) + 1
  /\ TaskOn(material, 0, tz) # Null
  /\ TaskOn(material, 0, tz).completed
  /\ material.currentProgress < Len(material.sections)

\* The finished test the generator of the material's type makes before it
\* derives a task.
FinishedForTasks(m) == IF m.type = "book" THEN BookFinished(m) ELSE VideoFinished(m)

\* No date of the range has a task.
NoTaskInRange(m, off) ==
  \A k \in 0 .. LastDayOfRange(m, off) : TaskOn(m, k, off) = Null

\* Some date of the range has a task, and every task is completed.
AllTasksCompleted(m, off) ==
  /\ \E k \in 0 .. LastDayOfRange(m, off) : TaskOn(m, k, off) # Null
  /\ \A k \in 0 .. LastDayOfRange(m, off) :
       TaskOn(m, k, off) # Null => TaskOn(m, k, off).completed

\* C26: the two completion predicates agree: isLearningCompleted(material)
\* is true if and only if the per-date derivation returns no task for every
\* date of [startDate, endDate] because the material is finished; a material
\* reported as completed never still shows tasks, and a material with every
\* generated task completed is reported as completed.
C26_CompletionPredicatesAgree ==
  IsMaterial(material) =>
    /\ isLearningCompleted(material) <=> FinishedForTasks(material)
    /\ isLearningCompleted(material) => NoTaskInRange(material, tz)
    /\ AllTasksCompleted(material, tz) => isLearningCompleted(material)

\* The fields of a book other than currentPage.
OtherBookFields(book) ==
  [f \in (DOMAIN book) \ {"currentPage"} |-> book[f]]

\* C27: updateBookProgress keeps 0 <= currentPage <= totalPages and changes
\* no field other than currentPage and updatedAt; for any book created by
\* scheduleBook, updateBookProgress(book, book.endPage) gives a book for
\* which generateBookTaskForDate returns no task on every date.
C27_ProgressBoundedAndFinishable ==
  material.type = "book" =>
    /\ \A completedPage \in 0 .. (MaxPage + 1) :
         LET updated == updateBookProgress(material, completedPage)
         IN /\ 0 <= updated.currentPage
            /\ updated.currentPage <= updated.totalPages
            /\ OtherBookFields(updated) = OtherBookFields(material)
    /\ LET read == updateBookProgress(material, material.endPage)
       IN \A date \in QueryInstants : generateBookTaskForDate(read, date, tz) = Null

\* The titles of a list of sections.
TitlesIn(secs) == [k \in 1 .. Len(secs) |-> secs[k].title]

\* C28: distributeSectionsAcrossDays and generateVideoTaskForDate assign
\* the same sections to the same days: for a video made by scheduleVideo
\* with currentProgress = 0, a date has an entry in the distribution map
\* iff generateVideoTaskForDate yields a task for it, and the entry's
\* section titles are the task's sections.
C28_DistributionMatchesTasks ==
  (material.type = "video" /\ material.currentProgress = 0 /\ distribution.made) =>
    \A date \in QueryInstants :
      LET t == generateVideoTaskForDate(material, date, tz)
          dateKey == formatDate(date)
      IN /\ (dateKey \in DOMAIN distribution.entries) <=> (t # Null)
         /\ t # Null => TitlesIn(distribution.entries[dateKey]) = t.sections

\* importAllData has returned.
Imported == storeCall.op = "importAllData"

\* C29: export followed by import is a round trip on each backend:
\* importAllData(exportAllData()) returns success, and afterwards
\* materialStorage.getAll() holds the same materials and
\* completedTasksStorage.getAll() the same keys as before the export;
\* importAllData reports success only when every item was stored.
C29_ExportImportRoundTrip ==
  Imported =>
    /\ ~faultSeen =>
         /\ storeResult.local = Success
         /\ localGetAll(localItems) = storeCall.local.materials
         /\ localCompleted = storeCall.local.completedTasks
         /\ storeResult.remote = Success
         /\ supabaseGetAll(remoteRows) = storeCall.remote.materials
         /\ supabaseCompletedKeys(remoteCompleted) = storeCall.remote.completedTasks
    /\ storeResult.local.success =>
         /\ localGetAll(localItems) = storeCall.local.materials
         /\ storeCall.local.completedTasks \subseteq localCompleted
    /\ storeResult.remote.success =>
         /\ \A n \in 1 .. Len(storeCall.remote.materials) :
              supabaseGetById(remoteRows, storeCall.remote.materials[n].id)
                = storeCall.remote.materials[n]
         /\ storeCall.remote.completedTasks \subseteq supabaseCompletedKeys(remoteCompleted)

\* C30: after any sequence of App handlers, including calls whose storage
\* write fails, the in-memory materials list and completedTasks set equal
\* the materials and completion keys held by the storage backend.  (The
\* handler that writes completion keys is handleTaskToggle; the part on
\* isSaving concerns handleAddBook and handleAddVideo only and is not
\* stated here.)
C30_MemoryEqualsStorage ==
  appCall # NoCall =>
    /\ appMaterials = localGetAll(localItems)
    /\ completedTasks = localCompleted

====
